---- MODULE Spec2Model ----
(***************************************************************************)
(* Bingo card server: the request handlers of the Express application and  *)
(* the SQLite tables and prepared statements they run against.             *)
(*                                                                         *)
(* Every handler below is synchronous (better-sqlite3 runs each statement  *)
(* to completion, and the handlers modelled here contain no await), so one *)
(* request is one atomic step of the state machine.  Each handler is       *)
(* written twice over: an operator ...Result that computes, from the       *)
(* current tables and the request, the response and the tables the handler *)
(* leaves, and an action that installs those tables.                       *)
(***************************************************************************)
EXTENDS Integers, Sequences, FiniteSets, TLC

(***************************************************************************)
(* Bounds of the model.                                                    *)
(***************************************************************************)
NumUsers == 3
MaxFriendshipId == 2
MaxCardId == 2
MaxCommentId == 2
MaxClock == 1
MaxInFlight == 2
MaxReactionId == 3

Users == 1..NumUsers

(***************************************************************************)
(* HTTP status codes the handlers answer with.                             *)
(***************************************************************************)
Ok == 200
Created == 201
BadRequest == 400
Forbidden == 403
NotFound == 404
Conflict == 409
Unauthorized == 401
Internal == 500

VARIABLES
    friendships,        \* rows of table friendships
    nextFriendshipId,   \* AUTOINCREMENT counter of friendships.id
    bingo_cards,        \* rows of table bingo_cards
    nextCardId,         \* AUTOINCREMENT counter of bingo_cards.id
    comments,           \* rows of table comments
    nextCommentId,      \* AUTOINCREMENT counter of comments.id
    now,                \* CURRENT_TIMESTAMP, in whole seconds
    revoked,            \* history: pairs whose accepted row was deleted and not re-accepted since
    declined,           \* history: pairs whose pending row was deleted and who have not been friends since
    saved,              \* history: per owner, the payload of the latest successful save
    users,              \* rows of table users
    nextUserId,         \* AUTOINCREMENT counter of users.id
    inFlight,           \* the requests suspended at their await of bcrypt.hash
    reactions,          \* rows of table reactions
    nextReactionId,     \* AUTOINCREMENT counter of reactions.id
    groups,             \* rows of table groups
    nextGroupId,        \* AUTOINCREMENT counter of groups.id
    group_members,      \* rows of table group_members
    nextMemberId,       \* AUTOINCREMENT counter of group_members.id
    group_comments,     \* rows of table group_comments
    nextGroupCommentId, \* AUTOINCREMENT counter of group_comments.id
    group_comment_reactions,  \* rows of table group_comment_reactions
    nextGroupReactionId       \* AUTOINCREMENT counter of group_comment_reactions.id

vars == <<friendships, nextFriendshipId, bingo_cards, nextCardId, comments,
          nextCommentId, now, revoked, declined, saved, users, nextUserId, inFlight,
          reactions, nextReactionId, groups, nextGroupId, group_members,
          nextMemberId, group_comments, nextGroupCommentId, group_comment_reactions,
          nextGroupReactionId>>

friendVars == <<friendships, nextFriendshipId, revoked, declined>>
cardVars == <<bingo_cards, nextCardId, saved>>
commentVars == <<comments, nextCommentId>>
userVars == <<users, nextUserId, inFlight>>
reactionVars == <<reactions, nextReactionId>>
groupVars == <<groups, nextGroupId, group_members, nextMemberId, group_comments,
               nextGroupCommentId, group_comment_reactions, nextGroupReactionId>>

(***************************************************************************)
(* bcrypt.hash and bcrypt.compare.  The hash of a password is a value of   *)
(* its own kind, different from the password; compare accepts a password  *)
(* exactly for its own hash.  Absent request fields are 0 (names: "").     *)
(***************************************************************************)
bcrypt_hash(password) == [algorithm |-> "bcrypt", of |-> password]

bcrypt_compare(password, hash) == hash = bcrypt_hash(password)

(***************************************************************************)
(* Users table.  Where accounts are not being registered, NumUsers          *)
(* accounts exist; user i registered with e-mail address i, no username    *)
(* and password 1.  E-mail NumUsers + 1 belongs to nobody, 0 is an absent  *)
(* (falsy) friendEmail field.                                              *)
(***************************************************************************)
Emails == 0..(NumUsers + 1)

UserRow(id, name, username, email, password) ==
    [id |-> id, name |-> name, username |-> username, email |-> email,
     password |-> password]

RegisteredUsers == {UserRow(i, "ann", 0, i, bcrypt_hash(1)) : i \in Users}

userQueries_findByEmail(email) ==
    {u.id : u \in {r \in users : r.email = email}}

(***************************************************************************)
(* Table friendships and its prepared statements.                          *)
(***************************************************************************)
Pair(a, b) == {a, b}

\* UNIQUE(user1_id, user2_id): the ordered pair only.
friendships_unique_violated(u1, u2) ==
    \E f \in friendships : f.user1_id = u1 /\ f.user2_id = u2

friendshipQueries_create(u1, u2, status) ==
    friendships \cup {[id |-> nextFriendshipId, user1_id |-> u1,
                       user2_id |-> u2, status |-> status]}

friendshipQueries_updateStatus(status, id) ==
    {IF f.id = id THEN [f EXCEPT !.status = status] ELSE f : f \in friendships}

friendshipQueries_findById(id) ==
    {f \in friendships : f.id = id}

\* A delete that also takes the rows created before the one named.
friendshipQueries_delete_olderToo(id) ==
    {f \in friendships : f.id > id}

\* A soft delete: the row stays, marked as declined.
friendshipQueries_delete_softDelete(id) ==
    {IF f.id = id THEN [f EXCEPT !.status = "declined"] ELSE f : f \in friendships}

\* A delete that matches no row.
friendshipQueries_delete_noRow(id) ==
    friendships

friendshipQueries_delete(id) ==
    {f \in friendships : f.id # id}

\* A one-directional lookup: what checkFriendship would be without its second disjunct.
checkFriendship_oneDirection(a1, a2, a3, a4) ==
    {f \in friendships : f.user1_id = a1 /\ f.user2_id = a2}

friendshipQueries_checkFriendship(a1, a2, a3, a4) ==
    {f \in friendships :
        \/ (f.user1_id = a1 /\ f.user2_id = a2)
        \/ (f.user1_id = a3 /\ f.user2_id = a4)}

\* .get(): the first row of the result, or undefined (here: the empty set).
\* Rows come back in rowid order.
Get(rows) ==
    IF rows = {} THEN {}
    ELSE {CHOOSE f \in rows : \A g \in rows : f.id <= g.id}

(***************************************************************************)
(* The rows of bingo_cards carry the JSON text of grid and completed.      *)
(***************************************************************************)
NoCard ==
    [size |-> 0, grid |-> <<>>, completed |-> <<>>, createdAt |-> 0, updatedAt |-> 0]

NoPayload ==
    [size |-> 0, hasGrid |-> FALSE, grid |-> <<>>, hasCompleted |-> FALSE,
     completed |-> <<>>]

(***************************************************************************)
(* POST /api/friends/request                                               *)
(***************************************************************************)
\* A check that only looks for an accepted friendship.
SendRequestCheck_acceptedOnly(user, friendId) ==
    Get({f \in friendshipQueries_checkFriendship(user, friendId, friendId, user) :
            f.status = "accepted"})

\* A check that only looks for the caller's own earlier request.
SendRequestCheck_oneDirection(user, friendId) ==
    Get(checkFriendship_oneDirection(user, friendId, friendId, user))

SendRequestCheck(user, friendId) ==
    Get(friendshipQueries_checkFriendship(user, friendId, friendId, user))

SendRequestResult(user, friendEmail) ==
    LET friend == userQueries_findByEmail(friendEmail)
        Refused(status) == [status |-> status, friendships |-> friendships,
                            nextFriendshipId |-> nextFriendshipId]
    IN  IF friendEmail = 0 THEN Refused(BadRequest)
        ELSE IF friend = {} THEN Refused(NotFound)
        ELSE LET friendId == CHOOSE f \in friend : TRUE
                 existing == SendRequestCheck(user, friendId)
             IN  IF friendId = user THEN Refused(BadRequest)
                 ELSE IF existing # {} THEN Refused(Conflict)
                 ELSE IF friendships_unique_violated(user, friendId)
                 THEN \* the INSERT throws; the catch block answers 500
                      Refused(Internal)
                 ELSE [status |-> Created,
                       friendships |-> friendshipQueries_create(user, friendId, "pending"),
                       nextFriendshipId |-> nextFriendshipId + 1]

SendRequest(user, friendEmail) ==
    LET res == SendRequestResult(user, friendEmail)
    IN  /\ res.nextFriendshipId <= MaxFriendshipId + 1
        /\ friendships' = res.friendships
        /\ nextFriendshipId' = res.nextFriendshipId
        /\ UNCHANGED <<revoked, declined, cardVars, commentVars, now, userVars, reactionVars,
                       groupVars>>

(***************************************************************************)
(* POST /api/friends/accept/:requestId                                     *)
(***************************************************************************)
\* Either party of the row may accept.
AcceptAllowed_anyParty(request, user) ==
    request.user2_id = user \/ request.user1_id = user

AcceptAllowed(request, user) ==
    request.user2_id = user

AcceptRequestResult(user, requestId) ==
    LET found == Get(friendshipQueries_findById(requestId))
    IN  IF found = {} THEN [status |-> NotFound, friendships |-> friendships]
        ELSE LET request == CHOOSE f \in found : TRUE
             IN  IF ~AcceptAllowed(request, user)
                 THEN [status |-> Forbidden, friendships |-> friendships]
                 ELSE [status |-> Ok,
                       friendships |-> friendshipQueries_updateStatus("accepted", requestId)]

AcceptRequest(user, requestId) ==
    LET res == AcceptRequestResult(user, requestId)
    IN  /\ friendships' = res.friendships
        /\ revoked' = IF res.status = Ok
                      THEN revoked \ {Pair(f.user1_id, f.user2_id) :
                                         f \in friendshipQueries_findById(requestId)}
                      ELSE revoked
        /\ declined' = IF res.status = Ok
                       THEN declined \ {Pair(f.user1_id, f.user2_id) :
                                           f \in friendshipQueries_findById(requestId)}
                       ELSE declined
        /\ UNCHANGED <<nextFriendshipId, cardVars, commentVars, now, userVars, reactionVars, groupVars>>

(***************************************************************************)
(* DELETE /api/friends/:friendshipId                                       *)
(***************************************************************************)
RemoveFriendshipResult(user, friendshipId) ==
    LET found == Get(friendshipQueries_findById(friendshipId))
    IN  IF found = {} THEN [status |-> NotFound, friendships |-> friendships]
        ELSE LET friendship == CHOOSE f \in found : TRUE
             IN  IF friendship.user1_id # user /\ friendship.user2_id # user
                 THEN [status |-> Forbidden, friendships |-> friendships]
                 ELSE [status |-> Ok,
                       friendships |-> friendshipQueries_delete(friendshipId)]

RemoveFriendship(user, friendshipId) ==
    LET res == RemoveFriendshipResult(user, friendshipId)
    IN  /\ friendships' = res.friendships
        /\ revoked' = IF res.status = Ok
                      THEN revoked \cup {Pair(f.user1_id, f.user2_id) :
                                            f \in {g \in friendshipQueries_findById(friendshipId) :
                                                      g.status = "accepted"}}
                      ELSE revoked
        /\ declined' = IF res.status = Ok
                       THEN declined \cup {Pair(f.user1_id, f.user2_id) :
                                              f \in {g \in friendshipQueries_findById(friendshipId) :
                                                        g.status = "pending"}}
                       ELSE declined
        /\ UNCHANGED <<nextFriendshipId, cardVars, commentVars, now, userVars, reactionVars, groupVars>>

(***************************************************************************)
(* JSON.stringify and JSON.parse on the request's grid and completed       *)
(* arrays: an array of rows, each row an array of cells.  The JSON text is *)
(* modelled as its sequence of tokens.  A cell of grid is a string (the    *)
(* task text), a cell of completed is a boolean; a JavaScript value        *)
(* carries its type.                                                       *)
(***************************************************************************)
Texts == {"run", "read", "cook", "swim"}

Str(s) == [type |-> "string", str |-> s, bool |-> FALSE]
Bool(b) == [type |-> "boolean", str |-> "", bool |-> b]

Quote(s) == "\"" \o s \o "\""

JSON_stringify_cell(c) ==
    IF c.type = "boolean" THEN (IF c.bool THEN "true" ELSE "false") ELSE Quote(c.str)

RECURSIVE JoinWithCommas(_)
JoinWithCommas(parts) ==
    IF Len(parts) = 0 THEN <<>>
    ELSE IF Len(parts) = 1 THEN Head(parts)
    ELSE Head(parts) \o <<",">> \o JoinWithCommas(Tail(parts))

JSON_stringify_row(row) ==
    <<"[">> \o JoinWithCommas([i \in 1..Len(row) |-> <<JSON_stringify_cell(row[i])>>])
            \o <<"]">>

JSON_stringify(matrix) ==
    <<"[">> \o JoinWithCommas([i \in 1..Len(matrix) |-> JSON_stringify_row(matrix[i])])
            \o <<"]">>

JSON_parse_cell(tok) ==
    IF tok = "true" THEN Bool(TRUE)
    ELSE IF tok = "false" THEN Bool(FALSE)
    ELSE Str(CHOOSE s \in Texts : Quote(s) = tok)

\* One pass over the tokens: depth counts the open brackets, cur collects the
\* cells of the row being read, rows the rows already closed.
RECURSIVE JSON_parse_from(_, _, _, _, _)
JSON_parse_from(toks, i, depth, rows, cur) ==
    IF i > Len(toks) THEN rows
    ELSE LET tok == toks[i]
         IN  IF tok = "[" THEN JSON_parse_from(toks, i + 1, depth + 1, rows, <<>>)
             ELSE IF tok = "]" THEN
                 IF depth = 2
                 THEN JSON_parse_from(toks, i + 1, depth - 1, Append(rows, cur), <<>>)
                 ELSE JSON_parse_from(toks, i + 1, depth - 1, rows, cur)
             ELSE IF tok = "," THEN JSON_parse_from(toks, i + 1, depth, rows, cur)
             ELSE JSON_parse_from(toks, i + 1, depth, rows, Append(cur, JSON_parse_cell(tok)))

JSON_parse(toks) == JSON_parse_from(toks, 1, 0, <<>>, <<>>)

(***************************************************************************)
(* Request bodies of POST /api/cards.  size 0 and an absent grid or        *)
(* completed are the falsy fields the handler refuses.                     *)
(***************************************************************************)
Grid1 == <<<<Str("run")>>>>
Completed1 == <<<<Bool(FALSE)>>>>
Grid2 == <<<<Str("run"), Str("read")>>, <<Str("cook"), Str("swim")>>>>
Completed2 == <<<<Bool(TRUE), Bool(FALSE)>>, <<Bool(FALSE), Bool(TRUE)>>>>

Payload(size, hasGrid, grid, hasCompleted, completed) ==
    [size |-> size, hasGrid |-> hasGrid, grid |-> grid,
     hasCompleted |-> hasCompleted, completed |-> completed]

CardPayloads ==
    { Payload(1, TRUE, Grid1, TRUE, Completed1),
      Payload(2, TRUE, Grid2, TRUE, Completed2),
      Payload(0, TRUE, Grid1, TRUE, Completed1),
      Payload(2, FALSE, <<>>, TRUE, Completed2),
      Payload(1, TRUE, Grid1, FALSE, <<>>) }

(***************************************************************************)
(* Table bingo_cards and its prepared statements.  The table has no        *)
(* uniqueness constraint on user_id.                                       *)
(***************************************************************************)
cardQueries_create(user_id, size, grid_data, completed_data) ==
    bingo_cards \cup {[id |-> nextCardId, user_id |-> user_id, size |-> size,
                       grid_data |-> grid_data, completed_data |-> completed_data,
                       created_at |-> now, updated_at |-> now]}

\* An update that leaves updated_at alone.
cardQueries_update_noTimestamp(grid_data, completed_data, user_id) ==
    {IF c.user_id = user_id
     THEN [c EXCEPT !.grid_data = grid_data, !.completed_data = completed_data]
     ELSE c : c \in bingo_cards}

cardQueries_update(grid_data, completed_data, user_id) ==
    {IF c.user_id = user_id
     THEN [c EXCEPT !.grid_data = grid_data, !.completed_data = completed_data,
                    !.updated_at = now]
     ELSE c : c \in bingo_cards}

cardQueries_findByUserId(user_id) ==
    {c \in bingo_cards : c.user_id = user_id}

cardQueries_delete(user_id) ==
    {c \in bingo_cards : c.user_id # user_id}


(***************************************************************************)
(* POST /api/cards                                                         *)
(***************************************************************************)
\* The lookup of the existing card finds nothing.
SaveCardExisting_neverFound(user) == {}

SaveCardExisting(user) ==
    Get(cardQueries_findByUserId(user))

SaveCardResult(user, body) ==
    IF body.size = 0 \/ ~body.hasGrid \/ ~body.hasCompleted
    THEN [status |-> BadRequest, bingo_cards |-> bingo_cards, nextCardId |-> nextCardId]
    ELSE LET gridData == JSON_stringify(body.grid)
             completedData == JSON_stringify(body.completed)
             existingCard == SaveCardExisting(user)
         IN  IF existingCard # {}
             THEN [status |-> Ok,
                   bingo_cards |-> cardQueries_update(gridData, completedData, user),
                   nextCardId |-> nextCardId]
             ELSE [status |-> Ok,
                   bingo_cards |-> cardQueries_create(user, body.size, gridData,
                                                      completedData),
                   nextCardId |-> nextCardId + 1]

SaveCard(user, body) ==
    LET res == SaveCardResult(user, body)
    IN  /\ res.nextCardId <= MaxCardId + 1
        /\ bingo_cards' = res.bingo_cards
        /\ nextCardId' = res.nextCardId
        /\ saved' = IF res.status = Ok THEN [saved EXCEPT ![user] = body] ELSE saved
        /\ UNCHANGED <<friendVars, commentVars, now, userVars, reactionVars, groupVars>>

(***************************************************************************)
(* GET /api/cards/me                                                       *)
(***************************************************************************)
CardResponse(card) ==
    [size |-> card.size,
     grid |-> JSON_parse(card.grid_data),
     completed |-> JSON_parse(card.completed_data),
     createdAt |-> card.created_at,
     updatedAt |-> card.updated_at]

GetOwnCardResult(user) ==
    LET card == Get(cardQueries_findByUserId(user))
    IN  IF card = {} THEN [status |-> NotFound, card |-> NoCard]
        ELSE [status |-> Ok, card |-> CardResponse(CHOOSE c \in card : TRUE)]

\* A read: it answers GetOwnCardResult and writes nothing.
GetOwnCard(user) ==
    /\ GetOwnCardResult(user).status \in {Ok, NotFound}
    /\ UNCHANGED vars

(***************************************************************************)
(* GET /api/cards/:userId                                                  *)
(***************************************************************************)
\* The gate without its status test: any row between the two users passes.
FriendGate_anyRow(friendship) ==
    friendship # {}

FriendGate(friendship) ==
    friendship # {} /\ \A f \in friendship : f.status = "accepted"

\* The handler with its two lookups in the other order: the card is looked
\* up first, so a missing card is reported before friendship is tested.
GetFriendCardResult_cardFirst(user, friendId) ==
    LET friendship == Get(friendshipQueries_checkFriendship(user, friendId, friendId, user))
        card == Get(cardQueries_findByUserId(friendId))
    IN  IF card = {} THEN [status |-> NotFound, card |-> NoCard]
        ELSE IF ~FriendGate(friendship) THEN [status |-> Forbidden, card |-> NoCard]
        ELSE [status |-> Ok, card |-> CardResponse(CHOOSE c \in card : TRUE)]

GetFriendCardResult(user, friendId) ==
    LET friendship == Get(friendshipQueries_checkFriendship(user, friendId, friendId, user))
        card == Get(cardQueries_findByUserId(friendId))
    IN  IF ~FriendGate(friendship) THEN [status |-> Forbidden, card |-> NoCard]
        ELSE IF card = {} THEN [status |-> NotFound, card |-> NoCard]
        ELSE [status |-> Ok, card |-> CardResponse(CHOOSE c \in card : TRUE)]

\* A read: it answers GetFriendCardResult and writes nothing.
GetFriendCard(user, friendId) ==
    /\ GetFriendCardResult(user, friendId).status \in {Ok, Forbidden, NotFound}
    /\ UNCHANGED vars

(***************************************************************************)
(* DELETE /api/cards                                                       *)
(***************************************************************************)
DeleteCardResult(user) ==
    [status |-> Ok, bingo_cards |-> cardQueries_delete(user)]

DeleteCard(user) ==
    /\ bingo_cards' = DeleteCardResult(user).bingo_cards
    /\ saved' = [saved EXCEPT ![user] = NoPayload]
    /\ UNCHANGED <<nextCardId, friendVars, commentVars, now, userVars, reactionVars, groupVars>>

(***************************************************************************)
(* Table comments and its prepared statements.  A comment is attached to a *)
(* card by the owner's user id and the cell's row and column.              *)
(***************************************************************************)
Cells == {<<0, 0>>, <<0, 1>>}
CommentTexts == {"", "nice"}

commentQueries_create(author_id, card_owner_id, row, col, text, is_private) ==
    comments \cup {[id |-> nextCommentId, author_id |-> author_id,
                    card_owner_id |-> card_owner_id, row |-> row, col |-> col,
                    text |-> text, is_private |-> is_private]}

commentQueries_getByCard(card_owner_id) ==
    {c \in comments : c.card_owner_id = card_owner_id}

commentQueries_getByTask(card_owner_id, row, col) ==
    {c \in comments : c.card_owner_id = card_owner_id /\ c.row = row /\ c.col = col}

\* server.js calls commentQueries.findByTargetUser, which no database module
\* under src/ prepares; by its name and use, the comments of one card owner.
commentQueries_findByTargetUser(target_user_id) ==
    {c \in comments : c.card_owner_id = target_user_id}

(***************************************************************************)
(* The friendship check of the comment handlers: skipped on one's own card.*)
(***************************************************************************)
CommentAllowed_anyRow(user, cardOwnerId) ==
    \/ cardOwnerId = user
    \/ FriendGate_anyRow(Get(friendshipQueries_checkFriendship(user, cardOwnerId,
                                                               cardOwnerId, user)))

CommentAllowed(user, cardOwnerId) ==
    \/ cardOwnerId = user
    \/ FriendGate(Get(friendshipQueries_checkFriendship(user, cardOwnerId,
                                                        cardOwnerId, user)))

(***************************************************************************)
(* POST /api/comments                                                      *)
(***************************************************************************)
PostCommentResult(user, cardOwnerId, cell, text, isPrivate) ==
    IF text = ""
    THEN [status |-> BadRequest, comments |-> comments, nextCommentId |-> nextCommentId]
    ELSE IF ~CommentAllowed(user, cardOwnerId)
    THEN [status |-> Forbidden, comments |-> comments, nextCommentId |-> nextCommentId]
    ELSE [status |-> Created,
          comments |-> commentQueries_create(user, cardOwnerId, cell[1], cell[2], text,
                                             IF isPrivate THEN 1 ELSE 0),
          nextCommentId |-> nextCommentId + 1]

PostComment(user, cardOwnerId, cell, text, isPrivate) ==
    LET res == PostCommentResult(user, cardOwnerId, cell, text, isPrivate)
    IN  /\ res.nextCommentId <= MaxCommentId + 1
        /\ comments' = res.comments
        /\ nextCommentId' = res.nextCommentId
        /\ UNCHANGED <<friendVars, cardVars, now, userVars, reactionVars, groupVars>>

(***************************************************************************)
(* The filter of private comments applied to the rows a query returned.    *)
(***************************************************************************)
\* No filter at all.
CommentVisible_all(comment, cardOwnerId, user) == TRUE

CommentVisible(comment, cardOwnerId, user) ==
    IF cardOwnerId = user THEN TRUE
    ELSE comment.is_private = 0 \/ comment.author_id = user

(***************************************************************************)
(* GET /api/comments/:cardOwnerId/:row/:col                                *)
(***************************************************************************)
ListCommentsCellResult(user, cardOwnerId, cell) ==
    LET found == commentQueries_getByTask(cardOwnerId, cell[1], cell[2])
    IN  IF ~CommentAllowed(user, cardOwnerId) THEN [status |-> Forbidden, list |-> {}]
        ELSE [status |-> Ok,
              list |-> {c \in found : CommentVisible(c, cardOwnerId, user)}]

\* A read: it answers ListCommentsCellResult and writes nothing.
ListCommentsCell(user, cardOwnerId, cell) ==
    /\ ListCommentsCellResult(user, cardOwnerId, cell).status \in {Ok, Forbidden}
    /\ UNCHANGED vars

(***************************************************************************)
(* GET /api/comments/:cardOwnerId                                          *)
(***************************************************************************)
ListCommentsResult(user, cardOwnerId) ==
    LET found == commentQueries_getByCard(cardOwnerId)
    IN  IF ~CommentAllowed(user, cardOwnerId) THEN [status |-> Forbidden, list |-> {}]
        ELSE [status |-> Ok,
              list |-> {c \in found : CommentVisible(c, cardOwnerId, user)}]

\* A read: it answers ListCommentsResult and writes nothing.
ListComments(user, cardOwnerId) ==
    /\ ListCommentsResult(user, cardOwnerId).status \in {Ok, Forbidden}
    /\ UNCHANGED vars

(***************************************************************************)
(* GET /api/comments/:userId as server.js has it: no friendship check, and *)
(* a private comment goes to its author and to the owner of the card.      *)
(***************************************************************************)
CommentVisibleServerJs(comment, requesterId) ==
    IF comment.is_private = 0 THEN TRUE
    ELSE comment.author_id = requesterId \/ comment.card_owner_id = requesterId

ListCommentsServerJsResult(requesterId, targetUserId) ==
    LET allComments == commentQueries_findByTargetUser(targetUserId)
    IN  [status |-> Ok,
         list |-> {c \in allComments : CommentVisibleServerJs(c, requesterId)}]

\* A read: it answers ListCommentsServerJsResult and writes nothing.
ListCommentsServerJs(requesterId, targetUserId) ==
    /\ ListCommentsServerJsResult(requesterId, targetUserId).status = Ok
    /\ UNCHANGED vars

(***************************************************************************)
(* The wall clock: CURRENT_TIMESTAMP has a resolution of one second, and   *)
(* any number of requests are served within one second.                    *)
(***************************************************************************)
Tick ==
    /\ now < MaxClock
    /\ now' = now + 1
    /\ UNCHANGED <<friendVars, cardVars, commentVars, userVars, reactionVars, groupVars>>

(***************************************************************************)
(* Initial state: the tables as initializeDatabase leaves them, with the   *)
(* accounts of Users registered.                                           *)
(***************************************************************************)
Init ==
    /\ friendships = {}
    /\ nextFriendshipId = 1
    /\ bingo_cards = {}
    /\ nextCardId = 1
    /\ comments = {}
    /\ nextCommentId = 1
    /\ now = 0
    /\ revoked = {}
    /\ declined = {}
    /\ saved = [u \in Users |-> NoPayload]
    /\ users = RegisteredUsers
    /\ nextUserId = NumUsers + 1
    /\ inFlight = {}
    /\ reactions = {}
    /\ nextReactionId = 1
    /\ groups = {}
    /\ nextGroupId = 1
    /\ group_members = {}
    /\ nextMemberId = 1
    /\ group_comments = {}
    /\ nextGroupCommentId = 1
    /\ group_comment_reactions = {}
    /\ nextGroupReactionId = 1

(***************************************************************************)
(* GET /api/friends.  getFriends projects, for each accepted row that      *)
(* touches the caller, the column that is not the caller, joined with      *)
(* that user's row; SELECT DISTINCT makes the result a set.                *)
(***************************************************************************)
\* CASE WHEN f.user1_id = ? THEN f.user2_id ELSE f.user1_id END
OtherColumn(f, a) == IF f.user1_id = a THEN f.user2_id ELSE f.user1_id

\* FROM friendships f JOIN users u ON (CASE ... END = u.id)
friendships_join_users(a2) ==
    {p \in friendships \X users : OtherColumn(p[1], a2) = p[2].id}

\* The query without its test of the status.
friendshipQueries_getFriends_anyStatus(a1, a2, a3, a4) ==
    {[friend_id |-> OtherColumn(p[1], a1), friend_name |-> p[2].name,
      friend_email |-> p[2].email] :
        p \in {q \in friendships_join_users(a2) :
                  q[1].user1_id = a3 \/ q[1].user2_id = a4}}

friendshipQueries_getFriends(a1, a2, a3, a4) ==
    {[friend_id |-> OtherColumn(p[1], a1), friend_name |-> p[2].name,
      friend_email |-> p[2].email] :
        p \in {q \in friendships_join_users(a2) :
                  /\ q[1].user1_id = a3 \/ q[1].user2_id = a4
                  /\ q[1].status = "accepted"}}

ListFriendsResult(user) ==
    [status |-> Ok, friends |-> friendshipQueries_getFriends(user, user, user, user)]

\* A read: it answers ListFriendsResult and writes nothing.
ListFriends(user) ==
    /\ ListFriendsResult(user).status = Ok
    /\ UNCHANGED vars

FriendshipIds == 1..MaxFriendshipId

NextFriends ==
    \/ \E u \in Users : ListFriends(u)
    \/ \E u \in Users, e \in Emails : SendRequest(u, e)
    \/ \E u \in Users, id \in FriendshipIds : AcceptRequest(u, id)
    \/ \E u \in Users, id \in FriendshipIds : RemoveFriendship(u, id)

SpecFriends == Init /\ [][NextFriends]_vars

(***************************************************************************)
(* Cards.  The friendships table is held at a state SpecFriends reaches    *)
(* (1 asked 2 and 2 accepted, then 3 asked 1), while cards are saved,      *)
(* read and deleted, all within one second of the clock.                   *)
(***************************************************************************)
FriendshipRow(id, u1, u2, status) ==
    [id |-> id, user1_id |-> u1, user2_id |-> u2, status |-> status]

InitCards ==
    /\ friendships = {FriendshipRow(1, 1, 2, "accepted"), FriendshipRow(2, 3, 1, "pending")}
    /\ nextFriendshipId = 3
    /\ bingo_cards = {}
    /\ nextCardId = 1
    /\ comments = {}
    /\ nextCommentId = 1
    /\ now = 0
    /\ revoked = {}
    /\ declined = {}
    /\ saved = [u \in Users |-> NoPayload]
    /\ users = RegisteredUsers
    /\ nextUserId = NumUsers + 1
    /\ inFlight = {}
    /\ reactions = {}
    /\ nextReactionId = 1
    /\ groups = {}
    /\ nextGroupId = 1
    /\ group_members = {}
    /\ nextMemberId = 1
    /\ group_comments = {}
    /\ nextGroupCommentId = 1
    /\ group_comment_reactions = {}
    /\ nextGroupReactionId = 1

NextCards ==
    \/ \E u \in Users, body \in CardPayloads : SaveCard(u, body)
    \/ \E u \in Users : GetOwnCard(u)
    \/ \E u \in Users, o \in Users : GetFriendCard(u, o)
    \/ \E u \in Users : DeleteCard(u)

SpecCards == InitCards /\ [][NextCards]_vars

(***************************************************************************)
(* Cards over time: from the same state, cards are saved and deleted while *)
(* the clock advances.                                                     *)
(***************************************************************************)
NextCardClock ==
    \/ \E u \in Users, body \in CardPayloads : SaveCard(u, body)
    \/ \E u \in Users : DeleteCard(u)
    \/ Tick

SpecCardClock == InitCards /\ [][NextCardClock]_vars

(***************************************************************************)
(* Access over time.  The cards and comments tables are held at a state    *)
(* the handlers reach (user 1 has saved a card and commented on it, nobody *)
(* else has a card), while friendships are requested, accepted and         *)
(* removed and cards and comments are read.                                *)
(***************************************************************************)
InitAccess ==
    /\ friendships = {}
    /\ nextFriendshipId = 1
    /\ bingo_cards = {[id |-> 1, user_id |-> 1, size |-> 1,
                       grid_data |-> JSON_stringify(Grid1),
                       completed_data |-> JSON_stringify(Completed1),
                       created_at |-> 0, updated_at |-> 0]}
    /\ nextCardId = 2
    /\ comments = {[id |-> 1, author_id |-> 1, card_owner_id |-> 1, row |-> 0,
                    col |-> 0, text |-> "nice", is_private |-> 0]}
    /\ nextCommentId = 2
    /\ now = 0
    /\ revoked = {}
    /\ declined = {}
    /\ saved = [u \in Users |->
                  IF u = 1 THEN Payload(1, TRUE, Grid1, TRUE, Completed1) ELSE NoPayload]
    /\ users = RegisteredUsers
    /\ nextUserId = NumUsers + 1
    /\ inFlight = {}
    /\ reactions = {}
    /\ nextReactionId = 1
    /\ groups = {}
    /\ nextGroupId = 1
    /\ group_members = {}
    /\ nextMemberId = 1
    /\ group_comments = {}
    /\ nextGroupCommentId = 1
    /\ group_comment_reactions = {}
    /\ nextGroupReactionId = 1

NextAccess ==
    \/ \E u \in Users, e \in Users : SendRequest(u, e)
    \/ \E u \in Users, id \in FriendshipIds : AcceptRequest(u, id)
    \/ \E u \in Users, id \in FriendshipIds : RemoveFriendship(u, id)
    \/ \E u \in Users, o \in Users : GetFriendCard(u, o)
    \/ \E u \in Users, o \in Users : ListComments(u, o)
    \/ \E u \in Users, o \in Users, cell \in Cells : ListCommentsCell(u, o, cell)

SpecAccess == InitAccess /\ [][NextAccess]_vars

(***************************************************************************)
(* Comments.  The friendships table is held at a state SpecFriends reaches *)
(* (1 and 3 are both accepted friends of 2, and not of each other), while  *)
(* comments are posted and listed.                                         *)
(***************************************************************************)
InitComments ==
    /\ friendships = {FriendshipRow(1, 1, 2, "accepted"), FriendshipRow(2, 2, 3, "accepted")}
    /\ nextFriendshipId = 3
    /\ bingo_cards = {}
    /\ nextCardId = 1
    /\ comments = {}
    /\ nextCommentId = 1
    /\ now = 0
    /\ revoked = {}
    /\ declined = {}
    /\ saved = [u \in Users |-> NoPayload]
    /\ users = RegisteredUsers
    /\ nextUserId = NumUsers + 1
    /\ inFlight = {}
    /\ reactions = {}
    /\ nextReactionId = 1
    /\ groups = {}
    /\ nextGroupId = 1
    /\ group_members = {}
    /\ nextMemberId = 1
    /\ group_comments = {}
    /\ nextGroupCommentId = 1
    /\ group_comment_reactions = {}
    /\ nextGroupReactionId = 1

NextComments ==
    \/ \E u \in Users, o \in Users, cell \in Cells, text \in CommentTexts, p \in BOOLEAN :
          PostComment(u, o, cell, text, p)
    \/ \E u \in Users, o \in Users : ListComments(u, o)
    \/ \E u \in Users, o \in Users, cell \in Cells : ListCommentsCell(u, o, cell)
    \/ \E u \in Users, o \in Users : ListCommentsServerJs(u, o)

SpecComments == InitComments /\ [][NextComments]_vars

(***************************************************************************)
(* Friendship claims.                                                      *)
(***************************************************************************)
RowsOfPair(a, b) ==
    {f \in friendships : Pair(f.user1_id, f.user2_id) = Pair(a, b)}

IsAcceptedFriend(a, b) ==
    \E f \in RowsOfPair(a, b) : f.status = "accepted"

\* C1: the friendships table never holds two rows for the same unordered
\* pair of users, in either direction.
C1_OneRowPerUnorderedPair ==
    \A f, g \in friendships :
        Pair(f.user1_id, f.user2_id) = Pair(g.user1_id, g.user2_id) => f = g

\* Two pairs of users are linked, and the addressee of one of the rows
\* would be refused a request in the opposite direction.
C1_Witness ==
    /\ Cardinality(friendships) >= 2
    /\ \E f \in friendships :
          SendRequestResult(f.user2_id, f.user1_id).status = Conflict

\* C2: while a row (pending or accepted) exists for the pair {A,B}, a
\* sendRequest from A to B or from B to A answers Conflict and adds no row.
C2_SecondRequestConflicts ==
    \A a \in Users, b \in Users :
        RowsOfPair(a, b) # {} =>
            LET res == SendRequestResult(a, b)
            IN  /\ res.status = Conflict
                /\ res.friendships = friendships
                /\ res.nextFriendshipId = nextFriendshipId

\* A's request to B was accepted; B's own request to A and a repeated one
\* by A are both refused.
C2_Witness ==
    \E f \in friendships :
        /\ f.status = "accepted"
        /\ SendRequestResult(f.user2_id, f.user1_id).status = Conflict
        /\ SendRequestResult(f.user1_id, f.user2_id).status = Conflict

\* C3: a row is created pending by its requester (user1), its status only
\* ever changes from pending to accepted, and only in an acceptRequest made
\* by its stored addressee (user2), who is never the requester.
C3_OnlyAddresseeAccepts ==
    [][\A id \in FriendshipIds :
         LET before == friendshipQueries_findById(id)
             after == {f \in friendships' : f.id = id}
         IN  /\ (before = {} /\ after # {}) =>
                   \A f \in after :
                       /\ f.status = "pending"
                       /\ f.user2_id # f.user1_id
                       /\ SendRequest(f.user1_id, f.user2_id)
                       /\ \A u \in Users \ {f.user1_id}, e \in Emails : ~SendRequest(u, e)
                       /\ \A u \in Users, i \in FriendshipIds :
                             ~AcceptRequest(u, i) /\ ~RemoveFriendship(u, i)
             /\ (before # {} /\ after # {} /\ before # after) =>
                   \A b \in before : \A f \in after :
                       /\ b.status = "pending"
                       /\ f = [b EXCEPT !.status = "accepted"]
                       /\ b.user2_id # b.user1_id
                       /\ AcceptRequest(b.user2_id, id)
                       /\ \A u \in Users \ {b.user2_id}, i \in FriendshipIds :
                             ~AcceptRequest(u, i)
                       /\ \A u \in Users, e \in Emails : ~SendRequest(u, e)
                       /\ \A u \in Users, i \in FriendshipIds : ~RemoveFriendship(u, i)]_vars

\* One request has been accepted by its addressee, and the requester of
\* another, still pending, is refused when accepting it.
C3_Witness ==
    /\ \E f \in friendships :
          /\ f.status = "accepted"
          /\ AcceptRequestResult(f.user2_id, f.id).status = Ok
    /\ \E g \in friendships :
          /\ g.status = "pending"
          /\ AcceptRequestResult(g.user1_id, g.id).status = Forbidden

(***************************************************************************)
(* Card claims.                                                            *)
(***************************************************************************)
CardsOf(rows, u) == {c \in rows : c.user_id = u}

ValidPayloads == {body \in CardPayloads : body.size # 0 /\ body.hasGrid /\ body.hasCompleted}

\* C4: getFriendCard answers with the owner's card only while an accepted
\* row exists for the pair {requester, owner}; with no row or a pending row
\* it answers Forbidden, with an accepted row and no card NotFound.
C4_FriendCardGate ==
    \A u \in Users, o \in Users :
        LET res == GetFriendCardResult(u, o)
            rows == RowsOfPair(u, o)
            cards == cardQueries_findByUserId(o)
        IN  /\ res.status \in {Ok, Forbidden, NotFound}
            /\ res.status = Ok =>
                  /\ IsAcceptedFriend(u, o)
                  /\ \E c \in cards : res.card = CardResponse(c)
            /\ (rows = {} \/ \E f \in rows : f.status = "pending") =>
                  /\ res.status = Forbidden
                  /\ res.card = NoCard
            /\ (IsAcceptedFriend(u, o) /\ cards = {}) =>
                  /\ res.status = NotFound
                  /\ res.card = NoCard

\* The owner of a card has one accepted friend, who gets the card, and one
\* still pending request, whose other party is refused.
C4_Witness ==
    \E f, g \in friendships :
        /\ f.status = "pending"
        /\ g.status = "accepted"
        /\ \E o \in {f.user1_id, f.user2_id} \cap {g.user1_id, g.user2_id} :
              /\ cardQueries_findByUserId(o) # {}
              /\ \A u \in {f.user1_id, f.user2_id} \ {o} :
                    GetFriendCardResult(u, o).status = Forbidden
              /\ \A u \in {g.user1_id, g.user2_id} \ {o} :
                    GetFriendCardResult(u, o).status = Ok

\* C8: there is never more than one card row per owner, and a successful
\* save, in particular one that repeats the payload of the previous save,
\* leaves the owner with exactly one.
C8_OneCardPerOwner ==
    /\ \A u \in Users : Cardinality(cardQueries_findByUserId(u)) <= 1
    /\ \A u \in Users : saved[u] # NoPayload =>
          /\ Cardinality(cardQueries_findByUserId(u)) = 1
          /\ Cardinality(CardsOf(SaveCardResult(u, saved[u]).bingo_cards, u)) = 1
    /\ \A u \in Users, body \in CardPayloads :
          LET res == SaveCardResult(u, body)
          IN  res.status = Ok => Cardinality(CardsOf(res.bingo_cards, u)) = 1

\* Two owners have a card, one of them saved over at least once (the row
\* holds the grid of a later payload than the one it was created from), and
\* the save that repeats an owner's last payload leaves that owner's row
\* as it is.
C8_Witness ==
    /\ Cardinality(bingo_cards) = 2
    /\ \E c \in bingo_cards : Len(JSON_parse(c.grid_data)) # c.size
    /\ \A c \in bingo_cards :
          /\ saved[c.user_id] # NoPayload
          /\ CardsOf(SaveCardResult(c.user_id, saved[c.user_id]).bingo_cards, c.user_id) = {c}

\* C9: getOwnCard and getFriendCard return the size, grid and completed of
\* the owner's most recent save.
C9_ReadsReturnLatestSave ==
    /\ \A o \in Users :
          LET res == GetOwnCardResult(o)
          IN  res.status = Ok =>
                /\ res.card.size = saved[o].size
                /\ res.card.grid = saved[o].grid
                /\ res.card.completed = saved[o].completed
    /\ \A u \in Users, o \in Users :
          LET res == GetFriendCardResult(u, o)
          IN  res.status = Ok =>
                /\ res.card.size = saved[o].size
                /\ res.card.grid = saved[o].grid
                /\ res.card.completed = saved[o].completed

\* C10 as stated: a save over an existing card leaves an updated timestamp
\* strictly later than the one the previous save left.
C10_StrictlyLater ==
    \A u \in Users, body \in CardPayloads :
        LET res == SaveCardResult(u, body)
        IN  res.status = Ok =>
               \A e \in cardQueries_findByUserId(u) : \A c \in CardsOf(res.bingo_cards, u) :
                   c.updated_at > e.updated_at

\* C10 as amended: a save over an existing card stamps it with the clock
\* second of that save, never earlier than the stamp it replaces, and
\* keeps its creation stamp.
C10_NotEarlier ==
    \A u \in Users, body \in CardPayloads :
        LET res == SaveCardResult(u, body)
        IN  res.status = Ok =>
               \A e \in cardQueries_findByUserId(u) : \A c \in CardsOf(res.bingo_cards, u) :
                   /\ c.updated_at = now
                   /\ c.updated_at >= e.updated_at
                   /\ c.created_at = e.created_at

\* A card created in an earlier second has been saved again in this one,
\* and one more save of another payload in the same second leaves the
\* stamp where it is.
C10_Witness ==
    \E e \in bingo_cards :
        /\ e.created_at < e.updated_at
        /\ e.updated_at = now
        /\ \E body \in ValidPayloads :
              \E c \in CardsOf(SaveCardResult(e.user_id, body).bingo_cards, e.user_id) :
                  /\ c.grid_data # e.grid_data
                  /\ c.updated_at = e.updated_at

(***************************************************************************)
(* Comment and authorization claims.                                       *)
(***************************************************************************)
\* The text of a well-formed comment: the handler answers a request without
\* text before it looks at the friendship.
WellFormedTexts == CommentTexts \ {""}

\* C5: once the accepted row of {A,B} has been deleted, and until a new
\* request between them has been accepted, getFriendCard, postComment and
\* listComments by either on the other's card answer Forbidden.
C5_RevokedIsForbidden ==
    \A a \in Users, b \in Users :
        Pair(a, b) \in revoked =>
            /\ GetFriendCardResult(a, b) = [status |-> Forbidden, card |-> NoCard]
            /\ ListCommentsResult(a, b) = [status |-> Forbidden, list |-> {}]
            /\ \A cell \in Cells :
                  ListCommentsCellResult(a, b, cell) = [status |-> Forbidden, list |-> {}]
            /\ \A cell \in Cells, text \in WellFormedTexts, p \in BOOLEAN :
                  LET res == PostCommentResult(a, b, cell, text, p)
                  IN  /\ res.status = Forbidden
                      /\ res.comments = comments

\* After the removal of their accepted friendship a new request between
\* the two is pending, and the owner's card is closed to the other in both
\* directions.
C5_Witness ==
    \E f \in friendships :
        /\ f.status = "pending"
        /\ Pair(f.user1_id, f.user2_id) \in revoked
        /\ cardQueries_findByUserId(f.user1_id) # {}
        /\ GetFriendCardResult(f.user2_id, f.user1_id).status = Forbidden
        /\ PostCommentResult(f.user2_id, f.user1_id, <<0, 0>>, "nice", FALSE).status = Forbidden
        /\ ListCommentsResult(f.user1_id, f.user2_id).status = Forbidden

\* The lists of the comments of owner's card (and of each of its cells) the
\* three list handlers return to requester.
ListResults(requester, owner) ==
    {[scope |-> Cells, res |-> ListCommentsResult(requester, owner)],
     [scope |-> Cells, res |-> ListCommentsServerJsResult(requester, owner)]}
    \cup {[scope |-> {cell}, res |-> ListCommentsCellResult(requester, owner, cell)] :
             cell \in Cells}

\* C6: a private comment by A on B's card is in no list returned to a
\* user other than A and B, and is in every list of that card (or cell)
\* returned to A or to B.
C6_PrivateCommentNonLeakage ==
    \A u \in Users, o \in Users : \A l \in ListResults(u, o) :
        l.res.status = Ok =>
            \A c \in comments :
                (c.is_private = 1 /\ c.card_owner_id = o /\ <<c.row, c.col>> \in l.scope) =>
                    (c \in l.res.list <=> u \in {c.author_id, c.card_owner_id})

\* An accepted friend of the card's owner lists the card: a public comment
\* comes back, another friend's private comment does not, and that comment
\* is in the lists its author and the owner get.
C6_Witness ==
    \E u \in Users : \E o \in Users \ {u} :
        LET res == ListCommentsResult(u, o)
        IN  /\ IsAcceptedFriend(u, o)
            /\ res.status = Ok
            /\ res.list # {}
            /\ \E c \in comments :
                  /\ c.is_private = 1
                  /\ c.card_owner_id = o
                  /\ c.author_id \notin {u, o}
                  /\ c \notin res.list
                  /\ c \in ListCommentsResult(c.author_id, o).list
                  /\ c \in ListCommentsResult(o, o).list

\* C7: postComment and listComments succeed only for the card's owner or
\* an accepted friend of the owner; any other caller gets Forbidden, and a
\* postComment that does not succeed stores nothing.
C7_CommentsNeedFriendship ==
    \A u \in Users, o \in Users :
        LET authorized == u = o \/ IsAcceptedFriend(u, o)
            lists == {ListCommentsResult(u, o)}
                     \cup {ListCommentsCellResult(u, o, cell) : cell \in Cells}
        IN  /\ \A res \in lists :
                  /\ res.status \in {Ok, Forbidden}
                  /\ res.status = Ok => authorized
                  /\ ~authorized => res = [status |-> Forbidden, list |-> {}]
            /\ \A cell \in Cells, text \in CommentTexts, p \in BOOLEAN :
                  LET res == PostCommentResult(u, o, cell, text, p)
                  IN  /\ res.status \in {Created, BadRequest, Forbidden}
                      /\ res.status = Created => authorized
                      /\ (~authorized /\ text \in WellFormedTexts) => res.status = Forbidden
                      /\ res.status # Created =>
                            /\ res.comments = comments
                            /\ res.nextCommentId = nextCommentId
                      /\ res.status = Created =>
                            \E c \in res.comments :
                                /\ res.comments = comments \cup {c}
                                /\ c \notin comments
                                /\ c.author_id = u
                                /\ c.card_owner_id = o

\* The requester of a still pending request is refused when commenting on
\* the addressee's card and when listing it, while an accepted friend of
\* the same owner is let in.
C7_Witness ==
    \E f, g \in friendships :
        /\ f.status = "pending"
        /\ g.status = "accepted"
        /\ \E o \in {f.user1_id, f.user2_id} \cap {g.user1_id, g.user2_id} :
              /\ \A u \in {f.user1_id, f.user2_id} \ {o} :
                    /\ PostCommentResult(u, o, <<0, 0>>, "nice", FALSE).status = Forbidden
                    /\ ListCommentsResult(u, o).status = Forbidden
              /\ \A u \in {g.user1_id, g.user2_id} \ {o} :
                    /\ PostCommentResult(u, o, <<0, 0>>, "nice", FALSE).status = Created
                    /\ ListCommentsResult(u, o).list # {}

(***************************************************************************)
(* JSON web tokens.  A token is a text; a text that is a signed JWT        *)
(* carries its payload, the key it was signed with and its expiry second.  *)
(* The Authorization header is the sequence of its space-separated parts.  *)
(***************************************************************************)
JWT_SECRET == "your-secret-key-change-this-in-production"
TokenLifetime == 2592000

Text(kind, userId, key, exp) == [kind |-> kind, userId |-> userId, key |-> key, exp |-> exp]

Word(w) == Text(w, 0, "", 0)

jwt_sign(userId, secret) == Text("jwt", userId, secret, now + TokenLifetime)

\* jwt.verify: the error, or "" and the payload.
jwt_verify(token, secret) ==
    IF token.kind # "jwt" THEN [err |-> "jwt malformed", userId |-> 0]
    ELSE IF token.key # secret THEN [err |-> "invalid signature", userId |-> 0]
    ELSE IF now >= token.exp THEN [err |-> "jwt expired", userId |-> 0]
    ELSE [err |-> "", userId |-> token.userId]

TokensTried ==
    {Word("garbage"), Word("")}
    \cup {Text("jwt", u, key, exp) :
             u \in Users, key \in {JWT_SECRET, "forged"}, exp \in 0..(MaxClock + 1)}

NoHeader == [present |-> FALSE, parts |-> <<>>]

Headers ==
    {NoHeader, [present |-> TRUE, parts |-> <<Word("Bearer")>>]}
    \cup {[present |-> TRUE, parts |-> <<Word("Bearer"), t>>] : t \in TokensTried}

(***************************************************************************)
(* Accounts.  Request bodies of POST /api/auth/register and PUT            *)
(* /api/auth/profile.                                                      *)
(***************************************************************************)
Names == {"", "ann"}
Usernames == {0, 1, 2}
AccountEmails == {0, 1, 2}
Passwords == {0, 1}

AccountBodies ==
    [name : Names, username : Usernames, email : AccountEmails, password : Passwords]

userQueries_findByUsername(username) ==
    {u \in users : u.username = username}

userQueries_create(name, email, password) ==
    users \cup {UserRow(nextUserId, name, 0, email, password)}

userQueries_createWithUsername(name, username, email, password) ==
    users \cup {UserRow(nextUserId, name, username, email, password)}

userQueries_updateProfile(name, username, email, id) ==
    {IF u.id = id THEN [u EXCEPT !.name = name, !.username = username, !.email = email]
     ELSE u : u \in users}

userQueries_updateWithPassword(name, username, email, password, id) ==
    {IF u.id = id
     THEN [u EXCEPT !.name = name, !.username = username, !.email = email,
                    !.password = password]
     ELSE u : u \in users}

\* email TEXT UNIQUE: the statement would leave two rows with this e-mail.
users_email_unique_violated(email, exceptId) ==
    \E u \in users : u.email = email /\ u.id # exceptId

\* A request suspended at its await, with the body it goes on to use.
Suspended(op, userId, body) ==
    [op |-> op, userId |-> userId, name |-> body.name, username |-> body.username,
     email |-> body.email, password |-> body.password]

(***************************************************************************)
(* POST /api/auth/register, up to its await of bcrypt.hash                 *)
(***************************************************************************)
RegisterBeginResult(body) ==
    IF body.name = "" \/ body.email = 0 \/ body.password = 0
    THEN [status |-> BadRequest, suspended |-> FALSE]
    ELSE IF userQueries_findByEmail(body.email) # {}
    THEN [status |-> Conflict, suspended |-> FALSE]
    ELSE IF body.username # 0 /\ Get(userQueries_findByUsername(body.username)) # {}
    THEN [status |-> Conflict, suspended |-> FALSE]
    ELSE [status |-> 0, suspended |-> TRUE]

RegisterBegin(body) ==
    LET res == RegisterBeginResult(body)
        request == Suspended("register", 0, body)
    IN  /\ IF res.suspended
           THEN /\ request \notin inFlight
                /\ Cardinality(inFlight) < MaxInFlight
                /\ nextUserId + Cardinality({r \in inFlight : r.op = "register"}) <= NumUsers
                /\ inFlight' = inFlight \cup {request}
           ELSE UNCHANGED inFlight
        /\ UNCHANGED <<users, nextUserId, friendVars, cardVars, commentVars, now,
                       reactionVars, groupVars>>

(***************************************************************************)
(* POST /api/auth/register, from the await of bcrypt.hash on               *)
(***************************************************************************)
\* The catch block answers a rejected INSERT like every other failure.
RegisterInsertRejected == Internal

RegisterFinishResult(request) ==
    LET hashedPassword == bcrypt_hash(request.password)
    IN  IF users_email_unique_violated(request.email, 0)
        THEN \* the INSERT throws
             [status |-> RegisterInsertRejected, users |-> users, nextUserId |-> nextUserId]
        ELSE [status |-> Created,
              users |-> IF request.username # 0
                        THEN userQueries_createWithUsername(request.name, request.username,
                                                            request.email, hashedPassword)
                        ELSE userQueries_create(request.name, request.email, hashedPassword),
              nextUserId |-> nextUserId + 1]

RegisterFinish(request) ==
    LET res == RegisterFinishResult(request)
    IN  /\ request \in inFlight
        /\ request.op = "register"
        /\ users' = res.users
        /\ nextUserId' = res.nextUserId
        /\ inFlight' = inFlight \ {request}
        /\ UNCHANGED <<friendVars, cardVars, commentVars, now, reactionVars, groupVars>>

(***************************************************************************)
(* PUT /api/auth/profile.  Without a new password the handler runs to its  *)
(* end; with one it awaits bcrypt.hash between its checks and its UPDATE.  *)
(***************************************************************************)
UpdateProfileBeginResult(userId, body) ==
    LET Refused(status) == [status |-> status, suspended |-> FALSE, users |-> users]
        existingUsername == Get(userQueries_findByUsername(body.username))
        existingEmail == userQueries_findByEmail(body.email)
    IN  IF body.name = "" \/ body.email = 0 THEN Refused(BadRequest)
        ELSE IF body.username # 0 /\ \E u \in existingUsername : u.id # userId
        THEN Refused(Conflict)
        ELSE IF \E id \in existingEmail : id # userId THEN Refused(Conflict)
        ELSE IF body.password # 0
        THEN [status |-> 0, suspended |-> TRUE, users |-> users]
        ELSE [status |-> Ok, suspended |-> FALSE,
              users |-> userQueries_updateProfile(body.name, body.username, body.email,
                                                  userId)]

UpdateProfileBegin(userId, body) ==
    LET res == UpdateProfileBeginResult(userId, body)
        request == Suspended("updateProfile", userId, body)
    IN  /\ \E u \in users : u.id = userId
        /\ IF res.suspended
           THEN /\ request \notin inFlight
                /\ Cardinality(inFlight) < MaxInFlight
                /\ inFlight' = inFlight \cup {request}
           ELSE UNCHANGED inFlight
        /\ users' = res.users
        /\ UNCHANGED <<nextUserId, friendVars, cardVars, commentVars, now, reactionVars,
                       groupVars>>

UpdateProfileFinishResult(request) ==
    LET hashedPassword == bcrypt_hash(request.password)
    IN  IF users_email_unique_violated(request.email, request.userId)
        THEN \* the UPDATE throws; the catch block answers 500
             [status |-> Internal, users |-> users]
        ELSE [status |-> Ok,
              users |-> userQueries_updateWithPassword(request.name, request.username,
                                                       request.email, hashedPassword,
                                                       request.userId)]

UpdateProfileFinish(request) ==
    /\ request \in inFlight
    /\ request.op = "updateProfile"
    /\ users' = UpdateProfileFinishResult(request).users
    /\ inFlight' = inFlight \ {request}
    /\ UNCHANGED <<nextUserId, friendVars, cardVars, commentVars, now, reactionVars,
                   groupVars>>

(***************************************************************************)
(* POST /api/auth/login.  The row is read once, before the await of        *)
(* bcrypt.compare, and nothing is written: one step.                       *)
(***************************************************************************)
LoginPasswords == {0, 1, 2}

NoText == Text("", 0, "", 0)

\* A different answer for an e-mail nobody registered.
LoginNoUser_distinct ==
    [status |-> NotFound, error |-> "No user with this email", token |-> NoText,
     userId |-> 0]

LoginNoUser ==
    [status |-> Unauthorized, error |-> "Invalid email or password", token |-> NoText,
     userId |-> 0]

LoginWrongPassword ==
    [status |-> Unauthorized, error |-> "Invalid email or password", token |-> NoText,
     userId |-> 0]

LoginResult(email, password) ==
    LET found == Get({u \in users : u.id \in userQueries_findByEmail(email)})
    IN  IF email = 0 \/ password = 0
        THEN [status |-> BadRequest, error |-> "Email and password are required",
              token |-> NoText, userId |-> 0]
        ELSE IF found = {} THEN LoginNoUser
        ELSE LET user == CHOOSE u \in found : TRUE
             IN  IF ~bcrypt_compare(password, user.password) THEN LoginWrongPassword
                 ELSE [status |-> Ok, error |-> "", token |-> jwt_sign(user.id, JWT_SECRET),
                       userId |-> user.id]

\* A read: it answers LoginResult and writes nothing.
Login(email, password) ==
    /\ LoginResult(email, password).status \in {Ok, BadRequest, Unauthorized}
    /\ UNCHANGED vars

(***************************************************************************)
(* Accounts being registered and edited, from the empty users table.       *)
(***************************************************************************)
InitAccounts ==
    /\ friendships = {}
    /\ nextFriendshipId = 1
    /\ bingo_cards = {}
    /\ nextCardId = 1
    /\ comments = {}
    /\ nextCommentId = 1
    /\ now = 0
    /\ revoked = {}
    /\ declined = {}
    /\ saved = [u \in Users |-> NoPayload]
    /\ users = {}
    /\ nextUserId = 1
    /\ inFlight = {}
    /\ reactions = {}
    /\ nextReactionId = 1
    /\ groups = {}
    /\ nextGroupId = 1
    /\ group_members = {}
    /\ nextMemberId = 1
    /\ group_comments = {}
    /\ nextGroupCommentId = 1
    /\ group_comment_reactions = {}
    /\ nextGroupReactionId = 1

SuspendedRequests ==
    {Suspended(op, userId, body) :
        op \in {"register", "updateProfile"}, userId \in {0} \cup Users,
        body \in AccountBodies}

NextAccounts ==
    \/ \E body \in AccountBodies : RegisterBegin(body)
    \/ \E request \in SuspendedRequests : RegisterFinish(request)
    \/ \E userId \in Users, body \in AccountBodies : UpdateProfileBegin(userId, body)
    \/ \E request \in SuspendedRequests : UpdateProfileFinish(request)
    \/ \E email \in AccountEmails, password \in LoginPasswords : Login(email, password)

SpecAccounts == InitAccounts /\ [][NextAccounts]_vars

\* C11: no two user rows have the same non-null username, whatever the
\* interleaving of register and updateProfile requests.
C11_UniqueUsername ==
    \A u, v \in users : (u.username # 0 /\ u.username = v.username) => u = v
\* C12: a register request whose INSERT the e-mail uniqueness constraint
\* rejects (another request for the same e-mail inserted while this one was
\* suspended) answers Conflict, and one row with that e-mail remains.
C12_RejectedInsertConflicts ==
    \A request \in inFlight :
        (request.op = "register" /\ users_email_unique_violated(request.email, 0)) =>
            LET res == RegisterFinishResult(request)
            IN  /\ res.status = Conflict
                /\ Cardinality({u \in res.users : u.email = request.email}) = 1

(***************************************************************************)
(* Table reactions and its prepared statements.  comment_id references     *)
(* comments(id) ON DELETE CASCADE, with foreign keys switched on.          *)
(***************************************************************************)
Emojis == {"", "heart", "star"}
CommentIds == 0..MaxCommentId

\* UNIQUE(comment_id, user_id) only.
reactions_unique_violated_perComment(comment_id, user_id, emoji) ==
    \E r \in reactions : r.comment_id = comment_id /\ r.user_id = user_id

reactions_unique_violated(comment_id, user_id, emoji) ==
    \E r \in reactions :
        r.comment_id = comment_id /\ r.user_id = user_id /\ r.emoji = emoji

reactions_foreign_key_violated(comment_id) ==
    ~\E c \in comments : c.id = comment_id

reactionQueries_create(comment_id, user_id, emoji) ==
    reactions \cup {[id |-> nextReactionId, comment_id |-> comment_id,
                     user_id |-> user_id, emoji |-> emoji]}

reactionQueries_delete(comment_id, user_id, emoji) ==
    {r \in reactions :
        ~(r.comment_id = comment_id /\ r.user_id = user_id /\ r.emoji = emoji)}

reactionQueries_getByComment(comment_id) ==
    {r \in reactions : r.comment_id = comment_id}

\* A delete by id alone, whoever wrote the comment.
commentQueries_delete_anyAuthor(id, author_id) ==
    {c \in comments : c.id # id}

commentQueries_delete(id, author_id) ==
    {c \in comments : ~(c.id = id /\ c.author_id = author_id)}

(***************************************************************************)
(* POST /api/reactions                                                     *)
(***************************************************************************)
AddReactionResult(user, commentId, emoji) ==
    LET Refused(status) == [status |-> status, reactions |-> reactions,
                            nextReactionId |-> nextReactionId]
    IN  IF commentId = 0 \/ emoji = "" THEN Refused(BadRequest)
        ELSE IF reactions_unique_violated(commentId, user, emoji)
        THEN \* the INSERT throws 'UNIQUE constraint failed'
             Refused(Conflict)
        ELSE IF reactions_foreign_key_violated(commentId)
        THEN \* the INSERT throws 'FOREIGN KEY constraint failed', which is thrown on
             Refused(Internal)
        ELSE [status |-> Created,
              reactions |-> reactionQueries_create(commentId, user, emoji),
              nextReactionId |-> nextReactionId + 1]

AddReaction(user, commentId, emoji) ==
    LET res == AddReactionResult(user, commentId, emoji)
    IN  /\ res.nextReactionId <= MaxReactionId + 1
        /\ reactions' = res.reactions
        /\ nextReactionId' = res.nextReactionId
        /\ UNCHANGED <<friendVars, cardVars, commentVars, now, userVars, groupVars>>

(***************************************************************************)
(* DELETE /api/reactions                                                   *)
(***************************************************************************)
RemoveReactionResult(user, commentId, emoji) ==
    IF commentId = 0 \/ emoji = ""
    THEN [status |-> BadRequest, reactions |-> reactions]
    ELSE IF reactionQueries_delete(commentId, user, emoji) = reactions
    THEN [status |-> NotFound, reactions |-> reactions]
    ELSE [status |-> Ok, reactions |-> reactionQueries_delete(commentId, user, emoji)]

RemoveReaction(user, commentId, emoji) ==
    /\ reactions' = RemoveReactionResult(user, commentId, emoji).reactions
    /\ UNCHANGED <<nextReactionId, friendVars, cardVars, commentVars, now, userVars,
                   groupVars>>

(***************************************************************************)
(* GET /api/reactions/:commentId                                           *)
(***************************************************************************)
GetReactionsResult(commentId) ==
    [status |-> Ok,
     reactions |-> [emoji \in {r.emoji : r \in reactionQueries_getByComment(commentId)} |->
                      {r.user_id : r \in {q \in reactionQueries_getByComment(commentId) :
                                             q.emoji = emoji}}]]

\* A read: it answers GetReactionsResult and writes nothing.
GetReactions(user, commentId) ==
    /\ GetReactionsResult(commentId).status = Ok
    /\ UNCHANGED vars

(***************************************************************************)
(* DELETE /api/comments/:commentId                                         *)
(***************************************************************************)
DeleteCommentResult(user, commentId) ==
    IF commentQueries_delete(commentId, user) = comments
    THEN [status |-> NotFound, comments |-> comments, reactions |-> reactions]
    ELSE [status |-> Ok, comments |-> commentQueries_delete(commentId, user),
          \* ON DELETE CASCADE
          reactions |-> {r \in reactions : r.comment_id # commentId}]

DeleteComment(user, commentId) ==
    LET res == DeleteCommentResult(user, commentId)
    IN  /\ comments' = res.comments
        /\ reactions' = res.reactions
        /\ UNCHANGED <<nextCommentId, nextReactionId, friendVars, cardVars, now, userVars,
                       groupVars>>

(***************************************************************************)
(* Reactions.  From the state of InitAccess (user 1 has commented on the   *)
(* own card), reactions are added and removed and the comment deleted.     *)
(***************************************************************************)
NextReactions ==
    \/ \E u \in Users, c \in CommentIds, e \in Emojis : AddReaction(u, c, e)
    \/ \E u \in Users, c \in CommentIds, e \in Emojis : RemoveReaction(u, c, e)
    \/ \E u \in Users, c \in CommentIds : GetReactions(u, c)
    \/ \E u \in Users, c \in CommentIds : DeleteComment(u, c)

SpecReactions == InitAccess /\ [][NextReactions]_vars

\* C13: per (comment, user, emoji) there is at most one reaction row; while
\* it exists a further addReaction of the same triple answers Conflict and
\* adds nothing, and one by the same user on the same comment with another
\* emoji, not yet used, succeeds and adds that row.
C13_ReactionOncePerEmoji ==
    /\ \A r, q \in reactions :
          (r.comment_id = q.comment_id /\ r.user_id = q.user_id /\ r.emoji = q.emoji)
              => r = q
    /\ \A r \in reactions :
          LET again == AddReactionResult(r.user_id, r.comment_id, r.emoji)
          IN  /\ again.status = Conflict
              /\ again.reactions = reactions
              /\ again.nextReactionId = nextReactionId
              /\ \A e \in Emojis \ {""} :
                    (~\E q \in reactions : q.comment_id = r.comment_id
                                           /\ q.user_id = r.user_id /\ q.emoji = e) =>
                        LET other == AddReactionResult(r.user_id, r.comment_id, e)
                        IN  /\ other.status = Created
                            /\ \E n \in other.reactions :
                                  /\ n \notin reactions
                                  /\ other.reactions = reactions \cup {n}
                                  /\ n.comment_id = r.comment_id
                                  /\ n.user_id = r.user_id
                                  /\ n.emoji = e

\* A user has reacted to a comment with one emoji after removing an earlier
\* reaction: the same reaction again is refused, the other emoji accepted.
C13_Witness ==
    \E r \in reactions :
        /\ r.id > 1
        /\ Cardinality(reactions) = 1
        /\ AddReactionResult(r.user_id, r.comment_id, r.emoji).status = Conflict
        /\ \E e \in Emojis \ {"", r.emoji} :
              AddReactionResult(r.user_id, r.comment_id, e).status = Created

(***************************************************************************)
(* authenticateToken: the middleware in front of every protected route.    *)
(* next tells whether the route's handler is run, userId is req.user.      *)
(***************************************************************************)
\* The answer to a token jwt.verify refuses.
InvalidTokenStatus == Forbidden

authenticateToken(authHeader) ==
    LET hasToken == /\ authHeader.present
                    /\ Len(authHeader.parts) >= 2
                    /\ authHeader.parts[2] # Word("")
    IN  IF ~hasToken
        THEN [status |-> Unauthorized, error |-> "Access token required",
              next |-> FALSE, userId |-> 0]
        ELSE LET verified == jwt_verify(authHeader.parts[2], JWT_SECRET)
             IN  IF verified.err # ""
                 THEN [status |-> InvalidTokenStatus, error |-> "Invalid or expired token",
                       next |-> FALSE, userId |-> 0]
                 ELSE [status |-> 0, error |-> "", next |-> TRUE,
                       userId |-> verified.userId]

(***************************************************************************)
(* Protected routes: POST /api/cards and GET /api/auth/me behind the       *)
(* middleware.                                                             *)
(***************************************************************************)
userQueries_findById(id) ==
    {u \in users : u.id = id}

GetCurrentUserResult(authHeader) ==
    LET auth == authenticateToken(authHeader)
        user == Get(userQueries_findById(auth.userId))
    IN  IF ~auth.next THEN [status |-> auth.status, userId |-> 0]
        ELSE IF user = {} THEN [status |-> NotFound, userId |-> 0]
        ELSE [status |-> Ok, userId |-> (CHOOSE u \in user : TRUE).id]

\* A read: it answers GetCurrentUserResult and writes nothing.
GetCurrentUser(authHeader) ==
    /\ GetCurrentUserResult(authHeader).status \in {Ok, NotFound, Unauthorized, Forbidden}
    /\ UNCHANGED vars

PostCardsResult(authHeader, body) ==
    LET auth == authenticateToken(authHeader)
    IN  IF ~auth.next
        THEN [status |-> auth.status, bingo_cards |-> bingo_cards, nextCardId |-> nextCardId]
        ELSE SaveCardResult(auth.userId, body)

PostCards(authHeader, body) ==
    LET auth == authenticateToken(authHeader)
    IN  IF auth.next THEN SaveCard(auth.userId, body) ELSE UNCHANGED vars

(***************************************************************************)
(* Sessions: cards are saved through the middleware while the clock        *)
(* advances and tokens expire.                                             *)
(***************************************************************************)
NextSession ==
    \/ \E h \in Headers, body \in CardPayloads : PostCards(h, body)
    \/ \E h \in Headers : GetCurrentUser(h)
    \/ Tick

SpecSession == InitCards /\ [][NextSession]_vars

TokenOf(h) == IF h.present /\ Len(h.parts) >= 2 THEN h.parts[2] ELSE Word("")

\* C14: a request whose token is missing, malformed or expired is answered
\* Unauthorized and its handler is not run; any other request reaches the
\* handler with the user id embedded in its token.
C14_VerifyUnauthorized ==
    \A h \in Headers :
        LET token == TokenOf(h)
            missing == token = Word("")
            malformed == ~missing /\ (token.kind # "jwt" \/ token.key # JWT_SECRET)
            expired == ~missing /\ ~malformed /\ token.exp <= now
            auth == authenticateToken(h)
        IN  IF missing \/ malformed \/ expired
            THEN /\ auth.status = Unauthorized
                 /\ ~auth.next
                 /\ \A body \in CardPayloads :
                       PostCardsResult(h, body).bingo_cards = bingo_cards
            ELSE /\ auth.next
                 /\ auth.userId = token.userId

\* C15: login answers an e-mail that matches no user and an existing e-mail
\* with a wrong password identically, in status, message and everything
\* else, whatever the users table holds.
C15_LoginDoesNotLeakExistence ==
    \A password \in LoginPasswords \ {0} :
        /\ \A email \in AccountEmails \ {0} :
              LET rows == {u \in users : u.email = email}
                  res == LoginResult(email, password)
              IN  (\A u \in rows : ~bcrypt_compare(password, u.password)) =>
                      /\ res.status = Unauthorized
                      /\ res = [status |-> Unauthorized,
                                error |-> "Invalid email or password",
                                token |-> NoText, userId |-> 0]
        /\ \A absent, existing \in AccountEmails \ {0} :
              (/\ ~\E u \in users : u.email = absent
               /\ \E u \in users : u.email = existing
                                   /\ ~bcrypt_compare(password, u.password)) =>
                  LoginResult(absent, password) = LoginResult(existing, password)

\* One e-mail is registered and the other is not: a wrong password for the
\* first and any password for the second get the same answer, the right
\* password for the first logs in.
C15_Witness ==
    \E absent, existing \in AccountEmails \ {0} :
        /\ ~\E u \in users : u.email = absent
        /\ \E u \in users :
              /\ u.email = existing
              /\ LoginResult(existing, 1).status = Ok
              /\ LoginResult(existing, 1).userId = u.id
        /\ LoginResult(existing, 2) = LoginResult(absent, 2)
        /\ LoginResult(absent, 1).status = Unauthorized


(***************************************************************************)
(* Groups.  Rows of groups, group_members and group_comments; the ids are  *)
(* AUTOINCREMENT counters that never hand out a number twice.  Deleting a  *)
(* group deletes its memberships and its comments (ON DELETE CASCADE).     *)
(***************************************************************************)
MaxGroupId == 1
MaxMemberId == 3
MaxGroupCommentId == 2

GroupIds == 1..MaxGroupId
MemberIds == 1..MaxMemberId
GroupNames == {"", "club"}
FriendIds == 0..(NumUsers + 1)

GroupTables ==
    [groups |-> groups, nextGroupId |-> nextGroupId,
     group_members |-> group_members, nextMemberId |-> nextMemberId,
     group_comments |-> group_comments, nextGroupCommentId |-> nextGroupCommentId,
     group_comment_reactions |-> group_comment_reactions,
     nextGroupReactionId |-> nextGroupReactionId]

groupQueries_create(t, name, creator_id) ==
    [t EXCEPT !.groups = @ \cup {[id |-> t.nextGroupId, name |-> name,
                                  creator_id |-> creator_id]},
              !.nextGroupId = @ + 1]

groupQueries_findById(t, id) == Get({g \in t.groups : g.id = id})

groupQueries_delete(t, id) ==
    [t EXCEPT !.groups = {g \in @ : g.id # id},
              !.group_members = {m \in @ : m.group_id # id},
              !.group_comments = {c \in @ : c.group_id # id},
              !.group_comment_reactions =
                  {r \in @ : \A c \in t.group_comments :
                                 c.id = r.group_comment_id => c.group_id # id}]

group_members_unique_violated(t, group_id, user_id) ==
    \E m \in t.group_members : m.group_id = group_id /\ m.user_id = user_id

\* An insert that ignores the role and the status it is given.
groupQueries_addMember_asInvited(t, group_id, user_id, role, status) ==
    [t EXCEPT !.group_members = @ \cup {[id |-> t.nextMemberId, group_id |-> group_id,
                                         user_id |-> user_id, role |-> "member",
                                         status |-> "pending"]},
              !.nextMemberId = @ + 1]

groupQueries_addMember(t, group_id, user_id, role, status) ==
    [t EXCEPT !.group_members = @ \cup {[id |-> t.nextMemberId, group_id |-> group_id,
                                         user_id |-> user_id, role |-> role,
                                         status |-> status]},
              !.nextMemberId = @ + 1]

groupQueries_updateMemberStatus(t, status, id) ==
    [t EXCEPT !.group_members =
                  {IF m.id = id THEN [m EXCEPT !.status = status] ELSE m : m \in @}]

groupQueries_getMember(t, group_id, user_id) ==
    Get({m \in t.group_members : m.group_id = group_id /\ m.user_id = user_id})

groupQueries_getMemberById(t, id) == Get({m \in t.group_members : m.id = id})

\* The accepted rows of the group whose user exists (JOIN users).
groupQueries_getGroupMembers(t, group_id) ==
    {m \in t.group_members :
        /\ m.group_id = group_id
        /\ m.status = "accepted"
        /\ \E u \in users : u.id = m.user_id}

groupQueries_removeMember(t, group_id, user_id) ==
    [t EXCEPT !.group_members =
                  {m \in @ : ~(m.group_id = group_id /\ m.user_id = user_id)}]

groupQueries_createComment(t, group_id, user_id, text) ==
    [t EXCEPT !.group_comments = @ \cup {[id |-> t.nextGroupCommentId,
                                          group_id |-> group_id, user_id |-> user_id,
                                          text |-> text]},
              !.nextGroupCommentId = @ + 1]

groupQueries_getComments(t, group_id) ==
    {c \in t.group_comments :
        c.group_id = group_id /\ \E u \in users : u.id = c.user_id}

\* What a handler leaves in the three tables.
InstallGroupTables(t) ==
    /\ t.nextGroupId <= MaxGroupId + 1
    /\ t.nextMemberId <= MaxMemberId + 1
    /\ t.nextGroupCommentId <= MaxGroupCommentId + 1
    /\ groups' = t.groups
    /\ nextGroupId' = t.nextGroupId
    /\ group_members' = t.group_members
    /\ nextMemberId' = t.nextMemberId
    /\ group_comments' = t.group_comments
    /\ nextGroupCommentId' = t.nextGroupCommentId
    /\ group_comment_reactions' = t.group_comment_reactions
    /\ nextGroupReactionId' = t.nextGroupReactionId
    /\ UNCHANGED <<friendVars, cardVars, commentVars, now, saved, userVars,
                   reactionVars>>

(***************************************************************************)
(* The two checks the group handlers make on the caller's membership row.  *)
(***************************************************************************)
\* Any row, pending or accepted.
MemberGate_anyRow(membership) == membership # {}

\* if (!membership || membership.status !== 'accepted') -> 403
MemberGate(membership) ==
    /\ membership # {}
    /\ \A m \in membership : m.status = "accepted"

\* Any row, whatever its role.
AdminGate_anyRow(membership) == membership # {}

\* if (!membership || membership.role !== 'admin') -> 403
AdminGate(membership) ==
    /\ membership # {}
    /\ \A m \in membership : m.role = "admin"

(***************************************************************************)
(* POST /api/groups                                                        *)
(***************************************************************************)
CreateGroupResult(user, name) ==
    IF name = "" THEN [status |-> BadRequest, tables |-> GroupTables]
    ELSE LET created == groupQueries_create(GroupTables, name, user)
             groupId == GroupTables.nextGroupId
         IN  IF group_members_unique_violated(created, groupId, user)
             THEN [status |-> Internal, tables |-> created]
             ELSE [status |-> Created,
                   tables |-> groupQueries_addMember(created, groupId, user,
                                                     "admin", "accepted")]

CreateGroup(user, name) ==
    LET res == CreateGroupResult(user, name)
    IN  /\ res.status \in {Created, BadRequest, Internal}
        /\ InstallGroupTables(res.tables)

(***************************************************************************)
(* GET /api/groups/:groupId                                                *)
(***************************************************************************)
NoGroup == [id |-> 0, name |-> "", creator_id |-> 0, role |-> ""]

GetGroupResult(user, groupId) ==
    LET membership == groupQueries_getMember(GroupTables, groupId, user)
        group == groupQueries_findById(GroupTables, groupId)
    IN  IF ~MemberGate(membership) THEN [status |-> Forbidden, group |-> NoGroup]
        ELSE IF group = {} THEN [status |-> NotFound, group |-> NoGroup]
        ELSE LET g == CHOOSE x \in group : TRUE
                 m == CHOOSE x \in membership : TRUE
             IN  [status |-> Ok,
                  group |-> [id |-> g.id, name |-> g.name, creator_id |-> g.creator_id,
                             role |-> m.role]]

GetGroup(user, groupId) ==
    /\ GetGroupResult(user, groupId).status \in {Ok, Forbidden, NotFound}
    /\ UNCHANGED vars

(***************************************************************************)
(* POST /api/groups/:groupId/invite                                        *)
(***************************************************************************)
InviteResult(user, groupId, friendId) ==
    LET membership == groupQueries_getMember(GroupTables, groupId, user)
        existingMember == groupQueries_getMember(GroupTables, groupId, friendId)
    IN  IF friendId = 0 THEN [status |-> BadRequest, tables |-> GroupTables]
        ELSE IF ~AdminGate(membership) THEN [status |-> Forbidden, tables |-> GroupTables]
        ELSE IF userQueries_findById(friendId) = {}
        THEN [status |-> NotFound, tables |-> GroupTables]
        ELSE IF existingMember # {} THEN [status |-> Conflict, tables |-> GroupTables]
        ELSE IF group_members_unique_violated(GroupTables, groupId, friendId)
        THEN \* the INSERT throws; the catch block answers 500
             [status |-> Internal, tables |-> GroupTables]
        ELSE [status |-> Created,
              tables |-> groupQueries_addMember(GroupTables, groupId, friendId,
                                                "member", "pending")]

Invite(user, groupId, friendId) ==
    LET res == InviteResult(user, groupId, friendId)
    IN  /\ res.status \in {Created, BadRequest, Forbidden, NotFound, Conflict, Internal}
        /\ InstallGroupTables(res.tables)

(***************************************************************************)
(* POST and DELETE /api/groups/invitations/:invitationId                   *)
(***************************************************************************)
AcceptInvitationResult(user, invitationId) ==
    LET invitation == groupQueries_getMemberById(GroupTables, invitationId)
    IN  IF invitation = {} THEN [status |-> NotFound, tables |-> GroupTables]
        ELSE IF \E i \in invitation : i.user_id # user
        THEN [status |-> Forbidden, tables |-> GroupTables]
        ELSE IF \E i \in invitation : i.status = "accepted"
        THEN [status |-> BadRequest, tables |-> GroupTables]
        ELSE [status |-> Ok,
              tables |-> groupQueries_updateMemberStatus(GroupTables, "accepted",
                                                         invitationId)]

AcceptInvitation(user, invitationId) ==
    LET res == AcceptInvitationResult(user, invitationId)
    IN  /\ res.status \in {Ok, BadRequest, Forbidden, NotFound}
        /\ InstallGroupTables(res.tables)

DeclineInvitationResult(user, invitationId) ==
    LET invitation == groupQueries_getMemberById(GroupTables, invitationId)
    IN  IF invitation = {} THEN [status |-> NotFound, tables |-> GroupTables]
        ELSE IF \E i \in invitation : i.user_id # user
        THEN [status |-> Forbidden, tables |-> GroupTables]
        ELSE LET i == CHOOSE x \in invitation : TRUE
             IN  [status |-> Ok,
                  tables |-> groupQueries_removeMember(GroupTables, i.group_id, user)]

DeclineInvitation(user, invitationId) ==
    LET res == DeclineInvitationResult(user, invitationId)
    IN  /\ res.status \in {Ok, Forbidden, NotFound}
        /\ InstallGroupTables(res.tables)

(***************************************************************************)
(* GET /api/groups/:groupId/members.  The entries are the accepted rows in *)
(* the order of the query (joined_at, here the order of their ids); each   *)
(* is answered with the statistics of its user's card, and the list is     *)
(* then sorted.  Array indices start at 1 here and at 0 in the code.       *)
(***************************************************************************)
\* Boolean(value)
Truthy(cell) == IF cell.type = "boolean" THEN cell.bool ELSE cell.str # ""

\* for (i < size) completed[i].every(...): completed[i] is undefined beyond
\* the last row, and reading .every of undefined throws a TypeError.
StatsThrow(completed, size) == \E i \in 1..size : i > Len(completed)

\* completed.flat().filter(Boolean).length
CompletedCells(completed) ==
    Cardinality(UNION {{<<i, j>> : j \in {k \in 1..Len(completed[i]) :
                                            Truthy(completed[i][k])}} :
                          i \in 1..Len(completed)})

\* Math.round(n / d * 100)
RoundedPercentage(n, d) == (200 * n + d) \div (2 * d)

\* row[j] of a row that has no index j is undefined, which is falsy.
CellAt(row, j) == j >= 1 /\ j <= Len(row) /\ Truthy(row[j])

BingoCount(completed, size) ==
    LET rows == {i \in 1..size : \A k \in 1..Len(completed[i]) : Truthy(completed[i][k])}
        columns == {j \in 1..size : \A i \in 1..Len(completed) : CellAt(completed[i], j)}
        diagonal == \A i \in 1..Len(completed) : CellAt(completed[i], i)
        antidiagonal == \A i \in 1..Len(completed) : CellAt(completed[i], size - i + 1)
    IN  Cardinality(rows) + Cardinality(columns)
            + (IF diagonal THEN 1 ELSE 0) + (IF antidiagonal THEN 1 ELSE 0)

\* The entry of one member; thrown tells that computing it threw.
MemberWithStats(member) ==
    LET card == Get(cardQueries_findByUserId(member.user_id))
        user == CHOOSE u \in users : u.id = member.user_id
        Entry(percentage, bingos, thrown) ==
            [id |-> member.user_id, name |-> user.name, email |-> user.email,
             role |-> member.role, completionPercentage |-> percentage,
             bingoCount |-> bingos, thrown |-> thrown]
    IN  IF card = {} THEN Entry(0, 0, FALSE)
        ELSE LET c == CHOOSE x \in card : TRUE
                 completed == JSON_parse(c.completed_data)
             IN  IF StatsThrow(completed, c.size) THEN Entry(0, 0, TRUE)
                 ELSE Entry(RoundedPercentage(CompletedCells(completed), c.size * c.size),
                            BingoCount(completed, c.size), FALSE)

\* The rows of an .all() as a list, in the order of their ids.
RECURSIVE AllInIdOrder(_)
AllInIdOrder(rows) ==
    IF rows = {} THEN <<>>
    ELSE LET first == CHOOSE r \in rows : \A q \in rows : r.id <= q.id
         IN  <<first>> \o AllInIdOrder(rows \ {first})

\* The comparator of the sort is negative: a goes before b.
SortsBefore(a, b) ==
    \/ a.completionPercentage > b.completionPercentage
    \/ /\ a.completionPercentage = b.completionPercentage
       /\ a.bingoCount > b.bingoCount

\* Array.prototype.sort is stable: an entry is put behind those it does not
\* sort before.
RECURSIVE InsertSorted(_, _)
InsertSorted(sorted, entry) ==
    IF sorted = <<>> THEN <<entry>>
    ELSE IF SortsBefore(entry, sorted[Len(sorted)])
    THEN Append(InsertSorted(SubSeq(sorted, 1, Len(sorted) - 1), entry), sorted[Len(sorted)])
    ELSE Append(sorted, entry)

RECURSIVE Sort(_)
Sort(list) ==
    IF list = <<>> THEN <<>>
    ELSE InsertSorted(Sort(SubSeq(list, 1, Len(list) - 1)), list[Len(list)])

ListMembersResult(user, groupId) ==
    LET membership == groupQueries_getMember(GroupTables, groupId, user)
        members == AllInIdOrder(groupQueries_getGroupMembers(GroupTables, groupId))
        membersWithStats == [i \in 1..Len(members) |-> MemberWithStats(members[i])]
    IN  IF ~MemberGate(membership) THEN [status |-> Forbidden, members |-> <<>>]
        ELSE IF \E i \in 1..Len(members) : membersWithStats[i].thrown
        THEN \* the catch block answers 500
             [status |-> Internal, members |-> <<>>]
        ELSE [status |-> Ok, members |-> Sort(membersWithStats)]

ListMembers(user, groupId) ==
    /\ ListMembersResult(user, groupId).status \in {Ok, Forbidden, Internal}
    /\ UNCHANGED vars

(***************************************************************************)
(* DELETE /api/groups/:groupId/leave                                       *)
(***************************************************************************)
\* The status sent to the only admin of a group that has other members.
LeaveLastAdminStatus == BadRequest

LeaveGroupResult(user, groupId) ==
    LET membership == groupQueries_getMember(GroupTables, groupId, user)
        members == groupQueries_getGroupMembers(GroupTables, groupId)
        adminCount == Cardinality({m \in members : m.role = "admin"})
        removed == groupQueries_removeMember(GroupTables, groupId, user)
        remainingMembers == groupQueries_getGroupMembers(removed, groupId)
    IN  IF membership = {} THEN [status |-> NotFound, tables |-> GroupTables]
        ELSE IF /\ \E m \in membership : m.role = "admin"
                /\ adminCount = 1
                /\ Cardinality(members) > 1
        THEN [status |-> LeaveLastAdminStatus, tables |-> GroupTables]
        ELSE IF remainingMembers = {}
        THEN [status |-> Ok, tables |-> groupQueries_delete(removed, groupId)]
        ELSE [status |-> Ok, tables |-> removed]

LeaveGroup(user, groupId) ==
    LET res == LeaveGroupResult(user, groupId)
    IN  /\ res.status \in {Ok, NotFound, LeaveLastAdminStatus}
        /\ InstallGroupTables(res.tables)

(***************************************************************************)
(* DELETE /api/groups/:groupId                                             *)
(***************************************************************************)
DeleteGroupResult(user, groupId) ==
    LET membership == groupQueries_getMember(GroupTables, groupId, user)
    IN  IF ~AdminGate(membership) THEN [status |-> Forbidden, tables |-> GroupTables]
        ELSE [status |-> Ok, tables |-> groupQueries_delete(GroupTables, groupId)]

DeleteGroup(user, groupId) ==
    LET res == DeleteGroupResult(user, groupId)
    IN  /\ res.status \in {Ok, Forbidden}
        /\ InstallGroupTables(res.tables)

(***************************************************************************)
(* POST and GET /api/groups/:groupId/comments                              *)
(***************************************************************************)
PostGroupCommentResult(user, groupId, text) ==
    LET membership == groupQueries_getMember(GroupTables, groupId, user)
    IN  IF text = "" THEN [status |-> BadRequest, tables |-> GroupTables]
        ELSE IF ~MemberGate(membership) THEN [status |-> Forbidden, tables |-> GroupTables]
        ELSE [status |-> Created,
              tables |-> groupQueries_createComment(GroupTables, groupId, user, text)]

PostGroupComment(user, groupId, text) ==
    LET res == PostGroupCommentResult(user, groupId, text)
    IN  /\ res.status \in {Created, BadRequest, Forbidden}
        /\ InstallGroupTables(res.tables)

ListGroupCommentsResult(user, groupId) ==
    LET membership == groupQueries_getMember(GroupTables, groupId, user)
    IN  IF ~MemberGate(membership) THEN [status |-> Forbidden, comments |-> {}]
        ELSE [status |-> Ok, comments |-> groupQueries_getComments(GroupTables, groupId)]

ListGroupComments(user, groupId) ==
    /\ ListGroupCommentsResult(user, groupId).status \in {Ok, Forbidden}
    /\ UNCHANGED vars

(***************************************************************************)
(* Groups being created, joined, left and deleted by the registered users. *)
(***************************************************************************)
InitGroups ==
    /\ friendships = {}
    /\ nextFriendshipId = 1
    /\ bingo_cards = {}
    /\ nextCardId = 1
    /\ comments = {}
    /\ nextCommentId = 1
    /\ now = 0
    /\ revoked = {}
    /\ declined = {}
    /\ saved = [u \in Users |-> NoPayload]
    /\ users = RegisteredUsers
    /\ nextUserId = NumUsers + 1
    /\ inFlight = {}
    /\ reactions = {}
    /\ nextReactionId = 1
    /\ groups = {}
    /\ nextGroupId = 1
    /\ group_members = {}
    /\ nextMemberId = 1
    /\ group_comments = {}
    /\ nextGroupCommentId = 1
    /\ group_comment_reactions = {}
    /\ nextGroupReactionId = 1

NextGroups ==
    \/ \E user \in Users, name \in GroupNames : CreateGroup(user, name)
    \/ \E user \in Users, groupId \in GroupIds : GetGroup(user, groupId)
    \/ \E user \in Users, groupId \in GroupIds, friendId \in FriendIds :
           Invite(user, groupId, friendId)
    \/ \E user \in Users, invitationId \in MemberIds : AcceptInvitation(user, invitationId)
    \/ \E user \in Users, invitationId \in MemberIds : DeclineInvitation(user, invitationId)
    \/ \E user \in Users, groupId \in GroupIds : ListMembers(user, groupId)
    \/ \E user \in Users, groupId \in GroupIds : LeaveGroup(user, groupId)
    \/ \E user \in Users, groupId \in GroupIds : DeleteGroup(user, groupId)

SpecGroups == InitGroups /\ [][NextGroups]_vars

(***************************************************************************)
(* A group with its admin, one accepted member and one invited user, and   *)
(* what its members and the others read and write in it.                   *)
(***************************************************************************)
MemberRow(id, group_id, user_id, role, status) ==
    [id |-> id, group_id |-> group_id, user_id |-> user_id, role |-> role,
     status |-> status]

InitGroupComments ==
    /\ friendships = {}
    /\ nextFriendshipId = 1
    /\ bingo_cards = {}
    /\ nextCardId = 1
    /\ comments = {}
    /\ nextCommentId = 1
    /\ now = 0
    /\ revoked = {}
    /\ declined = {}
    /\ saved = [u \in Users |-> NoPayload]
    /\ users = RegisteredUsers
    /\ nextUserId = NumUsers + 1
    /\ inFlight = {}
    /\ reactions = {}
    /\ nextReactionId = 1
    /\ groups = {[id |-> 1, name |-> "club", creator_id |-> 1]}
    /\ nextGroupId = 2
    /\ group_members = {MemberRow(1, 1, 1, "admin", "accepted"),
                        MemberRow(2, 1, 2, "member", "pending")}
    /\ nextMemberId = 3
    /\ group_comments = {}
    /\ nextGroupCommentId = 1
    /\ group_comment_reactions = {}
    /\ nextGroupReactionId = 1

NextGroupComments ==
    \/ \E user \in Users, groupId \in GroupIds : GetGroup(user, groupId)
    \/ \E user \in Users, groupId \in GroupIds, friendId \in FriendIds :
           Invite(user, groupId, friendId)
    \/ \E user \in Users, invitationId \in MemberIds : AcceptInvitation(user, invitationId)
    \/ \E user \in Users, invitationId \in MemberIds : DeclineInvitation(user, invitationId)
    \/ \E user \in Users, groupId \in GroupIds : ListMembers(user, groupId)
    \/ \E user \in Users, groupId \in GroupIds : LeaveGroup(user, groupId)
    \/ \E user \in Users, groupId \in GroupIds : DeleteGroup(user, groupId)
    \/ \E user \in Users, groupId \in GroupIds, text \in CommentTexts :
           PostGroupComment(user, groupId, text)
    \/ \E user \in Users, groupId \in GroupIds : ListGroupComments(user, groupId)

SpecGroupComments == InitGroupComments /\ [][NextGroupComments]_vars

\* C16: the only admin of a group that has other accepted members cannot
\* leave: the call fails with Conflict and the group, its memberships and
\* its comments stay as they were.
C16_SoleAdminLeaveConflicts ==
    \A user \in Users, groupId \in GroupIds :
        LET membership == groupQueries_getMember(GroupTables, groupId, user)
            accepted == {m \in group_members :
                            m.group_id = groupId /\ m.status = "accepted"}
        IN  (/\ \E m \in membership : m.role = "admin" /\ m.status = "accepted"
             /\ \A m \in accepted : m.role = "admin" => m.user_id = user
             /\ \E m \in accepted : m.user_id # user) =>
                /\ LeaveGroupResult(user, groupId).status = Conflict
                /\ LeaveGroupResult(user, groupId).tables = GroupTables

\* The membership rows of a user in a group, by status.
MembershipRows(user, groupId, status) ==
    {m \in group_members :
        m.group_id = groupId /\ m.user_id = user /\ m.status = status}

\* C17: a user with no membership row in a group, or with a pending one
\* only, gets Forbidden from getGroup, listMembers, listGroupComments and
\* from a postGroupComment that carries a text, and a postGroupComment that
\* is refused stores nothing.
C17_NonMembersAreForbidden ==
    \A user \in Users, groupId \in GroupIds :
        /\ MembershipRows(user, groupId, "accepted") = {} =>
              /\ GetGroupResult(user, groupId) = [status |-> Forbidden, group |-> NoGroup]
              /\ ListMembersResult(user, groupId) = [status |-> Forbidden, members |-> <<>>]
              /\ ListGroupCommentsResult(user, groupId)
                     = [status |-> Forbidden, comments |-> {}]
              /\ \A text \in WellFormedTexts :
                     PostGroupCommentResult(user, groupId, text).status = Forbidden
              /\ \A text \in CommentTexts :
                     PostGroupCommentResult(user, groupId, text).status # Created
        /\ \A text \in CommentTexts :
              LET res == PostGroupCommentResult(user, groupId, text)
              IN  res.status # Created => res.tables = GroupTables

\* A group with a comment that its accepted members read, one invited user
\* and one user without a row: both are refused all four operations.
C17_Witness ==
    \E groupId \in GroupIds, member \in Users, invited \in Users, stranger \in Users :
        /\ MembershipRows(member, groupId, "accepted") # {}
        /\ ListGroupCommentsResult(member, groupId).comments # {}
        /\ GetGroupResult(member, groupId).status = Ok
        /\ MembershipRows(invited, groupId, "pending") # {}
        /\ \A m \in group_members : ~(m.group_id = groupId /\ m.user_id = stranger)
        /\ \A user \in {invited, stranger} :
              /\ GetGroupResult(user, groupId).status = Forbidden
              /\ ListMembersResult(user, groupId).status = Forbidden
              /\ ListGroupCommentsResult(user, groupId).status = Forbidden
              /\ PostGroupCommentResult(user, groupId, "nice").status = Forbidden
              /\ PostGroupCommentResult(user, groupId, "nice").tables = GroupTables

\* The caller holds a row of the group with role admin and status accepted.
IsAcceptedAdmin(user, groupId) ==
    \E m \in MembershipRows(user, groupId, "accepted") : m.role = "admin"

\* C18: invite and deleteGroup succeed only for a caller whose membership
\* row in the group has role admin and status accepted; any other caller is
\* answered Forbidden (an invite that names nobody is refused as malformed
\* before that) and the three group tables stay as they were.  No row has
\* role admin without status accepted.
C18_AdminOnly ==
    /\ \A m \in group_members : m.role = "admin" => m.status = "accepted"
    /\ \A user \in Users, groupId \in GroupIds :
          /\ \A friendId \in FriendIds :
                LET res == InviteResult(user, groupId, friendId)
                IN  /\ res.status = Created => IsAcceptedAdmin(user, groupId)
                    /\ ~IsAcceptedAdmin(user, groupId) =>
                          /\ res.status \in {Forbidden, BadRequest}
                          /\ friendId # 0 => res.status = Forbidden
                          /\ res.tables = GroupTables
          /\ LET res == DeleteGroupResult(user, groupId)
             IN  /\ res.status = Ok => IsAcceptedAdmin(user, groupId)
                 /\ ~IsAcceptedAdmin(user, groupId) =>
                        res = [status |-> Forbidden, tables |-> GroupTables]

\* A group with its admin, an accepted member who is not admin and a third
\* user: the admin may invite the third user and delete the group, the
\* member and the third user may do neither.
C18_Witness ==
    \E groupId \in GroupIds, admin \in Users, member \in Users, other \in Users :
        /\ IsAcceptedAdmin(admin, groupId)
        /\ \E m \in MembershipRows(member, groupId, "accepted") : m.role = "member"
        /\ \A m \in group_members : ~(m.group_id = groupId /\ m.user_id = other)
        /\ InviteResult(admin, groupId, other).status = Created
        /\ DeleteGroupResult(admin, groupId).status = Ok
        /\ DeleteGroupResult(admin, groupId).tables.groups = {}
        /\ \A user \in {member, other} :
              /\ InviteResult(user, groupId, other).status = Forbidden
              /\ DeleteGroupResult(user, groupId).status = Forbidden

\* The answer is one of those given to a caller who passed the friendship check.
PassedGate(status) == status # Forbidden

\* The friendship check as the handlers make it for caller a on user b.
GateOutcome(a, b) ==
    FriendGate(Get(friendshipQueries_checkFriendship(a, b, b, a)))

\* C19: the friendship check gives a on b what it gives b on a, whichever
\* column of the row holds which id, and it is the accepted row of the
\* pair that decides; so getFriendCard, postComment and listComments
\* authorize a on b exactly when they authorize b on a.
C19_FriendshipIsSymmetric ==
    \A a \in Users, b \in Users :
        /\ GateOutcome(a, b) = GateOutcome(b, a)
        /\ GateOutcome(a, b) = IsAcceptedFriend(a, b)
        /\ CommentAllowed(a, b) = CommentAllowed(b, a)
        /\ a # b =>
              /\ PassedGate(GetFriendCardResult(a, b).status)
                     = PassedGate(GetFriendCardResult(b, a).status)
              /\ PassedGate(GetFriendCardResult(a, b).status) = GateOutcome(a, b)
              /\ PassedGate(ListCommentsResult(a, b).status)
                     = PassedGate(ListCommentsResult(b, a).status)
              /\ \A cell \in Cells :
                    /\ PassedGate(ListCommentsCellResult(a, b, cell).status)
                           = PassedGate(ListCommentsCellResult(b, a, cell).status)
                    /\ \A text \in WellFormedTexts, p \in BOOLEAN :
                           PassedGate(PostCommentResult(a, b, cell, text, p).status)
                               = PassedGate(PostCommentResult(b, a, cell, text, p).status)

\* An accepted row stored as (a, b) and a pending row stored as (c, a):
\* a and b pass the check on each other, a and c are refused on each other.
C19_Witness ==
    \E f \in friendships, g \in friendships :
        /\ f.status = "accepted"
        /\ g.status = "pending"
        /\ g.user2_id = f.user1_id
        /\ GetFriendCardResult(f.user1_id, f.user2_id).status # Forbidden
        /\ GetFriendCardResult(f.user2_id, f.user1_id).status # Forbidden
        /\ ListCommentsResult(f.user1_id, f.user2_id).status = Ok
        /\ ListCommentsResult(f.user2_id, f.user1_id).status = Ok
        /\ PostCommentResult(f.user1_id, f.user2_id, <<0, 0>>, "nice", FALSE).status = Created
        /\ PostCommentResult(f.user2_id, f.user1_id, <<0, 0>>, "nice", FALSE).status = Created
        /\ GetFriendCardResult(g.user1_id, g.user2_id).status = Forbidden
        /\ GetFriendCardResult(g.user2_id, g.user1_id).status = Forbidden

\* The address under which a user is registered.
EmailOf(userId) == (CHOOSE u \in users : u.id = userId).email

\* C20: either party of a pending row may delete it, and that deletes the
\* row and nothing else; whenever the pending request of a pair has been
\* declined this way and no row links the two, a request in either
\* direction is answered Created and adds one pending row from the sender to
\* the other, however often the pair has been through this before.
C20_ResendAfterDecline ==
    /\ \A f \in friendships, user \in Users :
          (f.status = "pending" /\ user \in {f.user1_id, f.user2_id}) =>
              RemoveFriendshipResult(user, f.id)
                  = [status |-> Ok, friendships |-> friendships \ {f}]
    /\ \A a \in Users, b \in Users :
          (a # b /\ Pair(a, b) \in declined /\ RowsOfPair(a, b) = {}) =>
              SendRequestResult(a, EmailOf(b))
                  = [status |-> Created,
                     friendships |-> friendships \cup
                         {[id |-> nextFriendshipId, user1_id |-> a, user2_id |-> b,
                           status |-> "pending"]},
                     nextFriendshipId |-> nextFriendshipId + 1]

\* The first request of a pair was declined and the addressee of the second
\* one may decline it again.
C20_Witness ==
    \E f \in friendships :
        /\ f.status = "pending"
        /\ f.id = 2
        /\ Pair(f.user1_id, f.user2_id) \in declined
        /\ RowsOfPair(f.user1_id, f.user2_id) = {f}
        /\ RemoveFriendshipResult(f.user2_id, f.id).status = Ok
        /\ RemoveFriendshipResult(f.user1_id, f.id).friendships = friendships \ {f}

\* C21: acceptRequest on an id no row has answers NotFound, by anyone but
\* the row's stored addressee it answers Forbidden, and both leave the table
\* as it was; by the addressee on a row that is already accepted it answers
\* Ok and the table is again as it was.
C21_AcceptRefusalsAndIdempotence ==
    \A user \in Users, requestId \in FriendshipIds :
        LET rows == {f \in friendships : f.id = requestId}
            res == AcceptRequestResult(user, requestId)
        IN  /\ rows = {} => res = [status |-> NotFound, friendships |-> friendships]
            /\ \A f \in rows :
                  /\ f.user2_id # user =>
                        res = [status |-> Forbidden, friendships |-> friendships]
                  /\ (f.user2_id = user /\ f.status = "accepted") =>
                        res = [status |-> Ok, friendships |-> friendships]
                  /\ (f.user2_id = user /\ f.status = "pending") =>
                        res = [status |-> Ok,
                               friendships |-> (friendships \ {f})
                                   \cup {[f EXCEPT !.status = "accepted"]}]

\* A request has been accepted: its addressee accepts it once more, its
\* requester tries to, and somebody names an id that no row has.
C21_Witness ==
    \E f \in friendships :
        /\ f.status = "accepted"
        /\ AcceptRequestResult(f.user2_id, f.id) = [status |-> Ok, friendships |-> friendships]
        /\ AcceptRequestResult(f.user1_id, f.id).status = Forbidden
        /\ \E requestId \in FriendshipIds :
              /\ \A g \in friendships : g.id # requestId
              /\ AcceptRequestResult(f.user2_id, requestId).status = NotFound

\* C22: removeFriendship by the requester or the addressee of a row deletes
\* that row, pending or accepted, and no other; by anybody else it answers
\* Forbidden, and on an id no row has NotFound, and the table stays as it was.
C22_EitherPartyRemoves ==
    \A user \in Users, friendshipId \in FriendshipIds :
        LET rows == {f \in friendships : f.id = friendshipId}
            res == RemoveFriendshipResult(user, friendshipId)
        IN  /\ rows = {} => res = [status |-> NotFound, friendships |-> friendships]
            /\ \A f \in rows :
                  IF user \in {f.user1_id, f.user2_id}
                  THEN res = [status |-> Ok, friendships |-> friendships \ {f}]
                  ELSE res = [status |-> Forbidden, friendships |-> friendships]

\* An accepted row and a later pending one: each party of the pending row
\* may delete it, which leaves exactly the accepted row, and the user who
\* is no party of the accepted row is refused.
C22_Witness ==
    \E f \in friendships, g \in friendships :
        /\ f.status = "accepted"
        /\ g.status = "pending"
        /\ f.id < g.id
        /\ RemoveFriendshipResult(g.user1_id, g.id) = [status |-> Ok, friendships |-> {f}]
        /\ RemoveFriendshipResult(g.user2_id, g.id) = [status |-> Ok, friendships |-> {f}]
        /\ RemoveFriendshipResult(f.user1_id, f.id).friendships = {g}
        /\ \E user \in Users :
              /\ user \notin {f.user1_id, f.user2_id}
              /\ RemoveFriendshipResult(user, f.id).status = Forbidden

(***************************************************************************)
(* Comments being posted, listed and deleted among the friends of          *)
(* InitComments.                                                           *)
(***************************************************************************)
NextCommentDeletion ==
    \/ \E u \in Users, o \in Users, cell \in Cells, text \in CommentTexts, p \in BOOLEAN :
          PostComment(u, o, cell, text, p)
    \/ \E u \in Users, o \in Users : ListComments(u, o)
    \/ \E u \in Users, c \in CommentIds : DeleteComment(u, c)

SpecCommentDeletion == InitComments /\ [][NextCommentDeletion]_vars

\* C23: deleteComment removes the comment, and only it, when the caller is
\* its author; on a comment somebody else wrote, the owner of the card it
\* is on included, and on an id no comment has, it is answered NotFound and
\* the comments and their reactions stay as they were.
C23_OnlyAuthorDeletes ==
    \A user \in Users, commentId \in CommentIds :
        LET rows == {c \in comments : c.id = commentId}
            res == DeleteCommentResult(user, commentId)
        IN  /\ res.status \in {Ok, NotFound}
            /\ res.status = Ok =>
                  \E c \in rows : c.author_id = user /\ res.comments = comments \ {c}
            /\ (\A c \in rows : c.author_id # user) =>
                  /\ res.status \in {NotFound, Forbidden}
                  /\ res.comments = comments
                  /\ res.reactions = reactions
            /\ (\E c \in rows : c.author_id = user) => res.status = Ok

\* A comment has been deleted, and of those left one is on the card of a
\* user who did not write it: that owner is refused, the author is not.
C23_Witness ==
    /\ Cardinality(comments) < nextCommentId - 1
    /\ \E c \in comments :
          /\ c.author_id # c.card_owner_id
          /\ DeleteCommentResult(c.card_owner_id, c.id)
                 = [status |-> NotFound, comments |-> comments, reactions |-> reactions]
          /\ DeleteCommentResult(c.author_id, c.id).status = Ok
          /\ DeleteCommentResult(c.author_id, c.id).comments = comments \ {c}
          /\ \E commentId \in CommentIds :
                /\ \A d \in comments : d.id # commentId
                /\ DeleteCommentResult(c.author_id, commentId).status = NotFound

\* C24: createGroup with a name adds the group and one membership row in
\* it, the caller's, with role admin and status accepted, and no row of any
\* other user; and group_members never holds two rows for the same group
\* and user.
C24_CreatorIsOnlyMember ==
    /\ \A m \in group_members, n \in group_members :
          (m.group_id = n.group_id /\ m.user_id = n.user_id) => m = n
    /\ \A user \in Users, name \in GroupNames \ {""} :
          LET res == CreateGroupResult(user, name)
          IN  /\ res.status = Created
              /\ res.tables.groups
                     = groups \cup {[id |-> nextGroupId, name |-> name, creator_id |-> user]}
              /\ {m \in res.tables.group_members : m.group_id = nextGroupId}
                     = {[id |-> nextMemberId, group_id |-> nextGroupId, user_id |-> user,
                         role |-> "admin", status |-> "accepted"]}
              /\ {m \in res.tables.group_members : m.group_id # nextGroupId} = group_members
              /\ \A g \in groups : g.id # nextGroupId

\* A group has just been created: its creator's row is its only row, so
\* every other user is refused the group and may be invited by the creator.
C24_Witness ==
    \E g \in groups :
        /\ {m \in group_members : m.group_id = g.id}
               = {[id |-> nextMemberId - 1, group_id |-> g.id, user_id |-> g.creator_id,
                   role |-> "admin", status |-> "accepted"]}
        /\ nextGroupId = g.id + 1
        /\ \A user \in Users \ {g.creator_id} :
              /\ InviteResult(g.creator_id, g.id, user).status = Created
              /\ GetGroupResult(user, g.id).status = Forbidden

\* C25: listFriends(U) holds one entry for each user V that an accepted row
\* links to U, whichever column holds whom, with V's name and e-mail, and
\* no other entry: not U, and not the other party of a pending row.
C25_ListFriendsIsAcceptedPairs ==
    \A user \in Users :
        LET res == ListFriendsResult(user)
        IN  /\ res.status = Ok
            /\ {r.friend_id : r \in res.friends}
                   = {v \in Users : IsAcceptedFriend(user, v)}
            /\ Cardinality(res.friends) = Cardinality({r.friend_id : r \in res.friends})
            /\ \A r \in res.friends :
                  /\ r.friend_id # user
                  /\ \E u \in users :
                        /\ u.id = r.friend_id
                        /\ u.name = r.friend_name
                        /\ u.email = r.friend_email

\* A user is the addressee of an accepted row and the requester of a
\* pending one: the list holds the first row's requester only, and the
\* requester's own list holds that user.
C25_Witness ==
    \E f \in friendships, g \in friendships :
        /\ f.status = "accepted"
        /\ g.status = "pending"
        /\ f.user2_id = g.user1_id
        /\ {r.friend_id : r \in ListFriendsResult(f.user2_id).friends} = {f.user1_id}
        /\ {r.friend_id : r \in ListFriendsResult(f.user1_id).friends} = {f.user2_id}
        /\ ListFriendsResult(g.user2_id).friends = {}

\* The caller may see the comment: owner of the card it is on or an accepted
\* friend of that owner, and for a private comment its author or that owner.
MaySeeComment(user, c) ==
    /\ CommentAllowed(user, c.card_owner_id)
    /\ c.is_private = 1 => user \in {c.author_id, c.card_owner_id}

\* C26: addReaction and listReactions on a comment succeed only for a
\* caller who may see the comment.
C26_ReactionsGatedLikeComments ==
    \A user \in Users :
        \A c \in comments :
            /\ \A emoji \in Emojis :
                  AddReactionResult(user, c.id, emoji).status = Created =>
                      MaySeeComment(user, c)
            /\ GetReactionsResult(c.id).status = Ok => MaySeeComment(user, c)

\* C27: every group that exists has a membership row with role admin and
\* status accepted.
C27_GroupKeepsAnAdmin ==
    \A g \in groups :
        \E m \in group_members :
            m.group_id = g.id /\ m.role = "admin" /\ m.status = "accepted"

(***************************************************************************)
(* Reactions on group comments.  UNIQUE(group_comment_id, user_id, emoji); *)
(* group_comment_id references group_comments(id).                         *)
(***************************************************************************)
MaxGroupReactionId == 3

group_comment_reactions_unique_violated(group_comment_id, user_id, emoji) ==
    \E r \in group_comment_reactions :
        /\ r.group_comment_id = group_comment_id
        /\ r.user_id = user_id
        /\ r.emoji = emoji

group_comment_reactions_foreign_key_violated(group_comment_id) ==
    \A c \in group_comments : c.id # group_comment_id

groupQueries_createCommentReaction(group_comment_id, user_id, emoji) ==
    group_comment_reactions \cup
        {[id |-> nextGroupReactionId, group_comment_id |-> group_comment_id,
          user_id |-> user_id, emoji |-> emoji]}

groupQueries_deleteCommentReaction(group_comment_id, user_id, emoji) ==
    {r \in group_comment_reactions :
        ~(r.group_comment_id = group_comment_id /\ r.user_id = user_id /\ r.emoji = emoji)}

groupQueries_getCommentReactions(group_comment_id) ==
    {r \in group_comment_reactions :
        r.group_comment_id = group_comment_id /\ \E u \in users : u.id = r.user_id}

\* POST /api/groups/:groupId/comments/:commentId/reactions
AddGroupReactionResult(user, groupId, commentId, emoji) ==
    LET membership == groupQueries_getMember(GroupTables, groupId, user)
        Refused(status) == [status |-> status,
                            group_comment_reactions |-> group_comment_reactions,
                            nextGroupReactionId |-> nextGroupReactionId]
    IN  IF emoji = "" THEN Refused(BadRequest)
        ELSE IF ~MemberGate(membership) THEN Refused(Forbidden)
        ELSE IF group_comment_reactions_unique_violated(commentId, user, emoji)
        THEN Refused(Conflict)
        ELSE IF group_comment_reactions_foreign_key_violated(commentId)
        THEN Refused(Internal)
        ELSE [status |-> Created,
              group_comment_reactions |->
                  groupQueries_createCommentReaction(commentId, user, emoji),
              nextGroupReactionId |-> nextGroupReactionId + 1]

AddGroupReaction(user, groupId, commentId, emoji) ==
    LET res == AddGroupReactionResult(user, groupId, commentId, emoji)
    IN  /\ res.nextGroupReactionId <= MaxGroupReactionId + 1
        /\ group_comment_reactions' = res.group_comment_reactions
        /\ nextGroupReactionId' = res.nextGroupReactionId
        /\ UNCHANGED <<friendVars, cardVars, commentVars, now, userVars, reactionVars,
                       groups, nextGroupId, group_members, nextMemberId, group_comments,
                       nextGroupCommentId>>

\* DELETE /api/groups/:groupId/comments/:commentId/reactions: the groupId of
\* the path is not read.
RemoveGroupReactionResult(user, commentId, emoji) ==
    IF emoji = ""
    THEN [status |-> BadRequest, group_comment_reactions |-> group_comment_reactions]
    ELSE IF groupQueries_deleteCommentReaction(commentId, user, emoji)
                = group_comment_reactions
    THEN [status |-> NotFound, group_comment_reactions |-> group_comment_reactions]
    ELSE [status |-> Ok,
          group_comment_reactions |->
              groupQueries_deleteCommentReaction(commentId, user, emoji)]

RemoveGroupReaction(user, commentId, emoji) ==
    LET res == RemoveGroupReactionResult(user, commentId, emoji)
    IN  /\ group_comment_reactions' = res.group_comment_reactions
        /\ UNCHANGED <<friendVars, cardVars, commentVars, now, userVars, reactionVars,
                       groups, nextGroupId, group_members, nextMemberId, group_comments,
                       nextGroupCommentId, nextGroupReactionId>>

\* GET /api/groups/:groupId/comments/:commentId/reactions: neither the
\* caller nor the groupId of the path is read.
GetGroupReactionsResult(commentId) ==
    LET rows == groupQueries_getCommentReactions(commentId)
    IN  [status |-> Ok,
         reactions |-> [emoji \in {r.emoji : r \in rows} |->
                          {r.user_id : r \in {q \in rows : q.emoji = emoji}}]]

GetGroupReactions(user, commentId) ==
    /\ GetGroupReactionsResult(commentId).status = Ok
    /\ UNCHANGED vars

(***************************************************************************)
(* Two groups, of user 1 and of user 2, each with a comment of its         *)
(* creator; user 3 is in neither.                                          *)
(***************************************************************************)
GroupCommentIds == 0..MaxGroupCommentId
PresetGroupIds == {1, 2}

InitGroupReactions ==
    /\ friendships = {}
    /\ nextFriendshipId = 1
    /\ bingo_cards = {}
    /\ nextCardId = 1
    /\ comments = {}
    /\ nextCommentId = 1
    /\ now = 0
    /\ revoked = {}
    /\ declined = {}
    /\ saved = [u \in Users |-> NoPayload]
    /\ users = RegisteredUsers
    /\ nextUserId = NumUsers + 1
    /\ inFlight = {}
    /\ reactions = {}
    /\ nextReactionId = 1
    /\ groups = {[id |-> 1, name |-> "club", creator_id |-> 1],
                 [id |-> 2, name |-> "club", creator_id |-> 2]}
    /\ nextGroupId = 3
    /\ group_members = {MemberRow(1, 1, 1, "admin", "accepted"),
                        MemberRow(2, 2, 2, "admin", "accepted")}
    /\ nextMemberId = 3
    /\ group_comments = {[id |-> 1, group_id |-> 1, user_id |-> 1, text |-> "nice"],
                         [id |-> 2, group_id |-> 2, user_id |-> 2, text |-> "nice"]}
    /\ nextGroupCommentId = 3
    /\ group_comment_reactions = {}
    /\ nextGroupReactionId = 1

NextGroupReactions ==
    \/ \E user \in Users, groupId \in PresetGroupIds, commentId \in GroupCommentIds,
          emoji \in Emojis : AddGroupReaction(user, groupId, commentId, emoji)
    \/ \E user \in Users, commentId \in GroupCommentIds, emoji \in Emojis :
           RemoveGroupReaction(user, commentId, emoji)
    \/ \E user \in Users, commentId \in GroupCommentIds : GetGroupReactions(user, commentId)

SpecGroupReactions == InitGroupReactions /\ [][NextGroupReactions]_vars

\* C28: a reaction on a group comment is added, removed or listed only by
\* a user with an accepted membership in the group the comment belongs to.
C28_GroupReactionsNeedMembership ==
    \A user \in Users :
        \A c \in group_comments :
            MembershipRows(user, c.group_id, "accepted") = {} =>
                /\ \A groupId \in PresetGroupIds, emoji \in Emojis :
                      AddGroupReactionResult(user, groupId, c.id, emoji).status # Created
                /\ \A emoji \in Emojis :
                      RemoveGroupReactionResult(user, c.id, emoji).status # Ok
                /\ GetGroupReactionsResult(c.id).status # Ok

(***************************************************************************)
(* The leaderboard of a group (user 1 its admin, user 2 an accepted        *)
(* member, user 3 invited) while the users save and delete their cards.    *)
(***************************************************************************)
InitLeaderboard ==
    /\ friendships = {}
    /\ nextFriendshipId = 1
    /\ bingo_cards = {}
    /\ nextCardId = 1
    /\ comments = {}
    /\ nextCommentId = 1
    /\ now = 0
    /\ revoked = {}
    /\ declined = {}
    /\ saved = [u \in Users |-> NoPayload]
    /\ users = RegisteredUsers
    /\ nextUserId = NumUsers + 1
    /\ inFlight = {}
    /\ reactions = {}
    /\ nextReactionId = 1
    /\ groups = {[id |-> 1, name |-> "club", creator_id |-> 1]}
    /\ nextGroupId = 2
    /\ group_members = {MemberRow(1, 1, 1, "admin", "accepted"),
                        MemberRow(2, 1, 2, "member", "accepted"),
                        MemberRow(3, 1, 3, "member", "pending")}
    /\ nextMemberId = 4
    /\ group_comments = {}
    /\ nextGroupCommentId = 1
    /\ group_comment_reactions = {}
    /\ nextGroupReactionId = 1

NextLeaderboard ==
    \/ \E user \in Users, body \in CardPayloads : SaveCard(user, body)
    \/ \E user \in Users : DeleteCard(user)
    \/ \E user \in Users, invitationId \in MemberIds : AcceptInvitation(user, invitationId)
    \/ \E user \in Users, groupId \in GroupIds : ListMembers(user, groupId)

SpecLeaderboard == InitLeaderboard /\ [][NextLeaderboard]_vars

\* C29: an accepted member who lists the members of the group gets Ok and
\* a list with one entry per accepted member, in which no entry stands
\* behind one it sorts before (higher percentage, or equal percentage and
\* more bingos), whatever cards the members have saved.
C29_LeaderboardSucceedsSorted ==
    \A user \in Users, groupId \in GroupIds :
        MembershipRows(user, groupId, "accepted") # {} =>
            LET res == ListMembersResult(user, groupId)
                accepted == {m.user_id : m \in {n \in group_members :
                                n.group_id = groupId /\ n.status = "accepted"}}
            IN  /\ res.status = Ok
                /\ {res.members[i].id : i \in 1..Len(res.members)} = accepted
                /\ Len(res.members) = Cardinality(accepted)
                /\ \A i \in 1..Len(res.members), j \in 1..Len(res.members) :
                      i < j => ~SortsBefore(res.members[j], res.members[i])

(***************************************************************************)
(* Card privacy over time.  The state of InitAccess (user 1 has a card,    *)
(* nobody else has one) after user 2 has sent a request to user 1 and      *)
(* user 3 one to user 2.  Cards are saved, replaced and deleted while the  *)
(* two requests are accepted or removed and cards are read.                *)
(***************************************************************************)
InitCardPrivacy ==
    /\ friendships = {[id |-> 1, user1_id |-> 2, user2_id |-> 1, status |-> "pending"],
                      [id |-> 2, user1_id |-> 3, user2_id |-> 2, status |-> "pending"]}
    /\ nextFriendshipId = 3
    /\ bingo_cards = {[id |-> 1, user_id |-> 1, size |-> 1,
                       grid_data |-> JSON_stringify(Grid1),
                       completed_data |-> JSON_stringify(Completed1),
                       created_at |-> 0, updated_at |-> 0]}
    /\ nextCardId = 2
    /\ comments = {}
    /\ nextCommentId = 1
    /\ now = 0
    /\ revoked = {}
    /\ declined = {}
    /\ saved = [u \in Users |->
                  IF u = 1 THEN Payload(1, TRUE, Grid1, TRUE, Completed1) ELSE NoPayload]
    /\ users = RegisteredUsers
    /\ nextUserId = NumUsers + 1
    /\ inFlight = {}
    /\ reactions = {}
    /\ nextReactionId = 1
    /\ groups = {}
    /\ nextGroupId = 1
    /\ group_members = {}
    /\ nextMemberId = 1
    /\ group_comments = {}
    /\ nextGroupCommentId = 1
    /\ group_comment_reactions = {}
    /\ nextGroupReactionId = 1

\* The users whose cards change in this specification.
CardOwners == {1, 2}

NextCardPrivacy ==
    \/ \E u \in Users, id \in FriendshipIds : AcceptRequest(u, id)
    \/ \E u \in Users, id \in FriendshipIds : RemoveFriendship(u, id)
    \/ \E u \in CardOwners, body \in CardPayloads : SaveCard(u, body)
    \/ \E u \in CardOwners : DeleteCard(u)
    \/ \E u \in Users, o \in Users : GetFriendCard(u, o)

SpecCardPrivacy == InitCardPrivacy /\ [][NextCardPrivacy]_vars

\* C30: a requester who is not an accepted friend of the owner gets the same
\* answer from getFriendCard before and after any step that leaves the
\* friendships alone (a card saved, replaced or deleted), and that answer is
\* Forbidden with no card in it.
C30_CardExistenceHidden ==
    [][\A u \in Users, o \in Users :
          (friendships' = friendships /\ ~IsAcceptedFriend(u, o)) =>
              /\ GetFriendCardResult(u, o)' = GetFriendCardResult(u, o)
              /\ GetFriendCardResult(u, o) = [status |-> Forbidden, card |-> NoCard]]_vars

\* One requester is refused alike by an owner who has a card (and a pending
\* request with the requester) and by an owner whose card was deleted.
C30_Witness ==
    \E u \in Users, o \in Users, gone \in Users :
        /\ u # o
        /\ u # gone
        /\ cardQueries_findByUserId(o) # {}
        /\ cardQueries_findByUserId(gone) = {}
        /\ gone = 1
        /\ \E f \in RowsOfPair(u, o) : f.status = "pending"
        /\ ~IsAcceptedFriend(u, gone)
        /\ GetFriendCardResult(u, o).status = Forbidden
        /\ GetFriendCardResult(u, o) = GetFriendCardResult(u, gone)

====
